---- MODULE Spec2Model ----
(***************************************************************************)
(* Model of the Markdown processing pipeline of mdp:                       *)
(*   - the section builder (src/markdown/sections.rs): the multi-pass      *)
(*     hierarchize algorithm and the materialisation of Section records;   *)
(*   - the line tokenizer (src/markdown/tokenize.rs, parsers.rs).          *)
(*   - the functions of the search and tasks commands (src/commands) and   *)
(*     the file reader and writer (src/commands/io.rs).                    *)
(* Strings are sequences of one-character strings.  A Token is a record    *)
(* [type, val, sub]: type is the enum case, val the string/date payload    *)
(* ("" when the case has none), sub the child tokens (<<>> for leaves).    *)
(* An Option is a sequence: <<>> is None, <<x>> is Some(x).                *)
(***************************************************************************)
EXTENDS Integers, Sequences, FiniteSets, TLC

VARIABLES
    tokens,               \* sections_from_tokens: the argument `tokens`
    hierarchical_tokens,  \* hierarchize_tokens_using_headings: `hierarchical_tokens`
    status,               \* hierarchize_tokens_using_headings: `status`
    result,               \* what sections_from_tokens returns
    pc,                   \* position inside sections_from_tokens
    markdown_string,      \* tokenize: the argument `markdown_string`
    lines,                \* tokenize: split_into_lines(markdown_string)
    line_number,          \* tokenize: the enumerate() index of the next line
    markdown_elements,    \* tokenize: `markdown_elements`
    errors,               \* tokenize: `errors`
    tok_result,           \* what tokenize returns
    tpc,                  \* position inside tokenize
    rendered_tokens,      \* the tokens whose rendering is markdown_string, if any
    args,                 \* the arguments of the call of a command function
    ret,                  \* what the command function returns
    cpc,                  \* position inside the command function
    files,                \* the file system: what each path names
    fs_log                \* the file system calls of the current write_output

vars == <<tokens, hierarchical_tokens, status, result, pc,
          markdown_string, lines, line_number, markdown_elements, errors,
          tok_result, tpc, rendered_tokens, args, ret, cpc, files, fs_log>>

section_vars == <<tokens, hierarchical_tokens, status, result, pc>>
tokenize_vars == <<markdown_string, lines, line_number, markdown_elements,
                   errors, tok_result, tpc, rendered_tokens>>
command_vars == <<args, ret, cpc>>
io_vars == <<files, fs_log>>

----------------------------------------------------------------------------
(* Bounds *)

\* longest token list handed to sections_from_tokens
MaxTokens == 4

\* longest token list handed to sections_from_tokens when the depth of the
\* forest is looked at
MaxDeepTokens == 5

\* deepest nesting of the tokens handed to Token::contains and of the
\* sections handed to contains_tag and search
MaxNesting == 2

\* longest list of search results handed to ordered_search_result_sections
MaxResults == 3

\* longest list of tasks handed to filter_tasks and order_tasks
MaxTasks == 3

\* number of write_output calls on the same path
MaxWrites == 2

\* longest list of paths handed to FileReader::read
MaxPaths == 2

\* longest input handed to take_until_unbalanced
MaxBracketInput == 4

\* most pieces an input of email is made of
MaxEmailPieces == 3

----------------------------------------------------------------------------
(* Token model (src/models/token.rs) *)

Leaf(type) == [type |-> type, val |-> "", sub |-> <<>>]
Textual(type, s) == [type |-> type, val |-> s, sub |-> <<>>]
Container(type, toks) == [type |-> type, val |-> "", sub |-> toks]
Token(type, val, sub) == [type |-> type, val |-> val, sub |-> sub]

\* Token::token_type: Blank is TokenType::Blankline, and both Markdown link
\* cases map to TokenType::MarkdownInternalLink.
token_type(t) ==
    CASE t.type = "Blank" -> "Blankline"
      [] t.type = "MarkdownExternalLink" -> "MarkdownInternalLink"
      [] OTHER -> t.type

HeadingTypes == {"HeadingH1", "HeadingH2", "HeadingH3", "HeadingH4"}

\* the match arms HeadingH1(_) | HeadingH2(_) | HeadingH3(_) | HeadingH4(_)
IsHeading(t) == t.type \in HeadingTypes

----------------------------------------------------------------------------
(* Section builder (src/markdown/sections.rs) *)

None == <<>>
Some(x) == <<x>>

\* usize::MAX, the position of a token type outside the hierarchy; only its
\* being larger than every index matters.
UsizeMax == 2147483647

\* the recursion cap passed to HierarchizeStatus::new
MaxRecursionLevel == 10

\* TokenHierarchy::from_token_types(vec![H1, H2, H3, H4]).levels
HierarchyLevels == <<"HeadingH1", "HeadingH2", "HeadingH3", "HeadingH4">>

\* TokenHierarchy::position (0-based)
position(tt) ==
    IF \E i \in 1..Len(HierarchyLevels) : HierarchyLevels[i] = tt
    THEN (CHOOSE i \in 1..Len(HierarchyLevels) : HierarchyLevels[i] = tt) - 1
    ELSE UsizeMax

\* TokenHierarchy::token_type_at (0-based), an Option
token_type_at(hierarchy_position) ==
    IF hierarchy_position < Len(HierarchyLevels)
    THEN Some(HierarchyLevels[hierarchy_position + 1])
    ELSE None

\* HierarchicalToken::from_token
from_token(token) == [token |-> token, children |-> <<>>]

\* HierarchizeStatus::new
new_status(max_hierarchy_level, max_recursion_level) ==
    [max_hierarchy_level |-> max_hierarchy_level,
     hierarchy_level |-> 0,
     max_recursion_level |-> max_recursion_level,
     recursion_level |-> 0]

\* one_hierarchy_level_deeper that allows one level beyond the last
one_hierarchy_level_deeper_one_more(s) ==
    IF s.hierarchy_level >= s.max_hierarchy_level
    THEN None
    ELSE Some([s EXCEPT !.hierarchy_level = s.hierarchy_level + 1])

\* HierarchizeStatus::one_hierarchy_level_deeper, an Option
one_hierarchy_level_deeper(s) ==
    IF s.hierarchy_level + 1 >= s.max_hierarchy_level
    THEN None
    ELSE Some([s EXCEPT !.hierarchy_level = s.hierarchy_level + 1])

\* one_recursion_level_deeper that always refuses
one_recursion_level_deeper_refusing(s) == None

\* HierarchizeStatus::one_recursion_level_deeper, an Option
one_recursion_level_deeper(s) ==
    IF s.recursion_level + 1 >= s.max_recursion_level
    THEN None
    ELSE Some([s EXCEPT !.recursion_level = s.recursion_level + 1])

\* HierarchizeStatus::is_hierarchy_root
is_hierarchy_root(s) == s.hierarchy_level = 0

\* the for loop of split_at_markdown_element, with its two accumulators
RECURSIVE split_loop(_, _, _, _)
split_loop(toks, tt, groups, current_group) ==
    IF toks = <<>>
    THEN IF current_group # <<>> THEN Append(groups, current_group) ELSE groups
    ELSE LET token == Head(toks) IN
         IF token_type(token.token) = tt
         THEN IF current_group = <<>>
              THEN split_loop(Tail(toks), tt, groups, <<token>>)
              ELSE split_loop(Tail(toks), tt, Append(groups, current_group), <<token>>)
         ELSE split_loop(Tail(toks), tt, groups, Append(current_group, token))

\* split_at_markdown_element without the push of the last group
split_at_markdown_element_without_last(hts, tt) ==
    SubSeq(split_loop(hts, tt, <<>>, <<>>), 1, Len(split_loop(hts, tt, <<>>, <<>>)) - 1)

\* split_at_markdown_element
split_at_markdown_element(hts, tt) == split_loop(hts, tt, <<>>, <<>>)

\* the tokens of the group that the heading `token` does not adopt
\* (higher_hierarchy_tokens), in order
RECURSIVE higher_hierarchy_tokens(_, _)
higher_hierarchy_tokens(rest, token) ==
    IF rest = <<>> THEN <<>>
    ELSE LET t == Head(rest) IN
         IF position(token_type(t.token)) < position(token_type(token.token))
         THEN <<t>> \o higher_hierarchy_tokens(Tail(rest), token)
         ELSE higher_hierarchy_tokens(Tail(rest), token)

\* the tokens of the group that the heading `token` adopts (pushed onto
\* token.children), in order
RECURSIVE adopted_tokens(_, _)
adopted_tokens(rest, token) ==
    IF rest = <<>> THEN <<>>
    ELSE LET t == Head(rest) IN
         IF position(token_type(t.token)) < position(token_type(token.token))
         THEN adopted_tokens(Tail(rest), token)
         ELSE <<t>> \o adopted_tokens(Tail(rest), token)

\* hierarchize_one_group with the detaching of higher headings forgotten: the
\* heading adopts every token that follows it in the group
hierarchize_one_group_adopts_all(hts, st, insert_blank_root_token) ==
    IF hts = <<>> THEN <<>>
    ELSE IF token_type_at(st.hierarchy_level) = None THEN hts
    ELSE LET split_token_type == token_type_at(st.hierarchy_level)[1]
             token == Head(hts)
             rest == Tail(hts)
         IN IF token_type(token.token) = split_token_type
            THEN <<[token EXCEPT !.children = token.children \o rest]>>
            ELSE IF insert_blank_root_token
            THEN <<[token |-> Leaf("Blank"), children |-> hts]>>
            ELSE hts

\* hierarchize_one_group
hierarchize_one_group(hts, st, insert_blank_root_token) ==
    IF hts = <<>> THEN <<>>
    ELSE IF token_type_at(st.hierarchy_level) = None THEN hts
    ELSE LET split_token_type == token_type_at(st.hierarchy_level)[1]
             token == Head(hts)
             rest == Tail(hts)
         IN IF token_type(token.token) = split_token_type
            THEN <<[token EXCEPT !.children =
                        token.children \o adopted_tokens(rest, token)]>>
                 \o higher_hierarchy_tokens(rest, token)
            ELSE IF insert_blank_root_token
            THEN <<[token |-> Leaf("Blank"), children |-> hts]>>
            ELSE hts

\* concatenation of hierarchize_one_group over the groups (level_tokens)
RECURSIVE level_tokens_of(_, _, _)
level_tokens_of(groups, st, insert_blank_root_token) ==
    IF groups = <<>> THEN <<>>
    ELSE hierarchize_one_group(Head(groups), st, insert_blank_root_token)
         \o level_tokens_of(Tail(groups), st, insert_blank_root_token)

\* hierarchize_recursive_one_hierarchy_level
RECURSIVE hierarchize_recursive_one_hierarchy_level(_, _, _)
hierarchize_recursive_one_hierarchy_level(hts, st, insert_blank_root_token) ==
    IF hts = <<>> THEN <<>>
    ELSE IF token_type_at(st.hierarchy_level) = None THEN hts
    ELSE LET markdown_element_type == token_type_at(st.hierarchy_level)[1]
             level_tokens ==
                 level_tokens_of(split_at_markdown_element(hts, markdown_element_type),
                                 st, insert_blank_root_token)
             next_status == one_recursion_level_deeper(st)
         IN [i \in 1..Len(level_tokens) |->
                IF next_status = None
                THEN level_tokens[i]
                ELSE [level_tokens[i] EXCEPT !.children =
                         hierarchize_recursive_one_hierarchy_level(
                             level_tokens[i].children, next_status[1], FALSE)]]

\* the calls of hierarchize_recursive_one_hierarchy_level that one call
\* makes, itself included, each as <<recursion_level, refused>>: refused
\* tells whether one_recursion_level_deeper returned None in that call
RECURSIVE hierarchize_calls(_, _, _)
hierarchize_calls(hts, st, insert_blank_root_token) ==
    IF hts = <<>> \/ token_type_at(st.hierarchy_level) = None
    THEN {<<st.recursion_level, FALSE>>}
    ELSE IF one_recursion_level_deeper(st) = None
    THEN {<<st.recursion_level, TRUE>>}
    ELSE {<<st.recursion_level, FALSE>>}
         \cup UNION {hierarchize_calls(
                         level_tokens_of(
                             split_at_markdown_element(
                                 hts, token_type_at(st.hierarchy_level)[1]),
                             st, insert_blank_root_token)[i].children,
                         one_recursion_level_deeper(st)[1], FALSE) :
                     i \in 1..Len(level_tokens_of(
                                      split_at_markdown_element(
                                          hts, token_type_at(st.hierarchy_level)[1]),
                                      st, insert_blank_root_token))}

\* Result<Vec<Section>, MDPError>
Ok(sections) == [ok |-> TRUE, sections |-> sections, err |-> ""]
MDPSyntaxError(msg) == [ok |-> FALSE, sections |-> <<>>, err |-> msg]

NoDateMsg == "doesn't contain a date."
ManyDatesMsg == "does contain more than one date."

\* SectionType of a heading token
section_type_of(t) ==
    CASE t.type = "HeadingH1" -> "H1"
      [] t.type = "HeadingH2" -> "H2"
      [] t.type = "HeadingH3" -> "H3"
      [] t.type = "HeadingH4" -> "H4"

\* collect_tags that also descends into the child tokens' own tokens
RECURSIVE collect_tags_nested(_)
collect_tags_nested(children) ==
    IF children = <<>> THEN <<>>
    ELSE IF Head(children).token.type = "Tag"
         THEN <<Head(children).token.val>> \o collect_tags_nested(Tail(children))
         ELSE collect_tags_nested(
                  [i \in 1..Len(Head(children).token.sub) |->
                      from_token(Head(children).token.sub[i])])
              \o collect_tags_nested(Tail(children))

\* the filter_map that collects `tags` from token.children
RECURSIVE collect_tags(_)
collect_tags(children) ==
    IF children = <<>> THEN <<>>
    ELSE IF Head(children).token.type = "Tag"
         THEN <<Head(children).token.val>> \o collect_tags(Tail(children))
         ELSE collect_tags(Tail(children))

\* the filter_map that collects `dates` from title_elements
RECURSIVE collect_dates(_)
collect_dates(title_elements) ==
    IF title_elements = <<>> THEN <<>>
    ELSE IF Head(title_elements).type = "Date"
         THEN <<Head(title_elements).val>> \o collect_dates(Tail(title_elements))
         ELSE collect_dates(Tail(title_elements))

\* collect_content that skips HRule only
RECURSIVE collect_content_keeps_blank(_)
collect_content_keeps_blank(children) ==
    IF children = <<>> THEN <<>>
    ELSE LET t == Head(children).token IN
         IF IsHeading(t) THEN <<>>
         ELSE IF t.type = "HRule" THEN collect_content_keeps_blank(Tail(children))
         ELSE <<t>> \o collect_content_keeps_blank(Tail(children))

\* the loop that fills `content`: break at a heading, skip HRule and Blank
RECURSIVE collect_content(_)
collect_content(children) ==
    IF children = <<>> THEN <<>>
    ELSE LET t == Head(children).token IN
         IF IsHeading(t) THEN <<>>
         ELSE IF t.type \in {"HRule", "Blank"} THEN collect_content(Tail(children))
         ELSE <<t>> \o collect_content(Tail(children))

\* resolve_date that looks at the title first and inherits only when the
\* title has no single date
resolve_date_prefers_title(parent_date, title_elements) ==
    LET dates == collect_dates(title_elements) IN
    CASE Len(dates) = 1 -> [ok |-> TRUE, date |-> dates[1], err |-> ""]
      [] parent_date # None -> [ok |-> TRUE, date |-> parent_date[1], err |-> ""]
      [] Len(dates) = 0 -> [ok |-> FALSE, date |-> <<>>, err |-> NoDateMsg]
      [] OTHER -> [ok |-> FALSE, date |-> <<>>, err |-> ManyDatesMsg]

\* resolve_date that takes the first date of a title with several
resolve_date_first_of_many(parent_date, title_elements) ==
    IF parent_date # None
    THEN [ok |-> TRUE, date |-> parent_date[1], err |-> ""]
    ELSE LET dates == collect_dates(title_elements) IN
         CASE Len(dates) = 0 -> [ok |-> FALSE, date |-> <<>>, err |-> NoDateMsg]
           [] OTHER -> [ok |-> TRUE, date |-> dates[1], err |-> ""]

\* the `date` of a heading: the parent's date if there is one, else the one
\* Date among the title's tokens; zero or several dates are a syntax error
resolve_date(parent_date, title_elements) ==
    IF parent_date # None
    THEN [ok |-> TRUE, date |-> parent_date[1], err |-> ""]
    ELSE LET dates == collect_dates(title_elements) IN
         CASE Len(dates) = 0 -> [ok |-> FALSE, date |-> <<>>, err |-> NoDateMsg]
           [] Len(dates) = 1 -> [ok |-> TRUE, date |-> dates[1], err |-> ""]
           [] OTHER -> [ok |-> FALSE, date |-> <<>>, err |-> ManyDatesMsg]

\* sections_loop that descends into the children of a node that is no heading
RECURSIVE sections_loop_traversing(_, _, _)
sections_loop_traversing(hts, parent_date, sections) ==
    IF hts = <<>> THEN Ok(sections)
    ELSE LET token == Head(hts) IN
         IF ~IsHeading(token.token)
         THEN LET below == sections_loop_traversing(token.children, parent_date, <<>>)
              IN IF ~below.ok THEN below
                 ELSE sections_loop_traversing(Tail(hts), parent_date,
                                               sections \o below.sections)
         ELSE LET tags == collect_tags(token.children)
                  d == resolve_date(parent_date, token.token.sub)
              IN IF ~d.ok THEN MDPSyntaxError(d.err)
                 ELSE LET content == collect_content(token.children)
                          subsections ==
                              sections_loop_traversing(token.children, Some(d.date), <<>>)
                      IN IF ~subsections.ok THEN subsections
                         ELSE sections_loop_traversing(Tail(hts), parent_date,
                                  Append(sections,
                                         [section_type |-> section_type_of(token.token),
                                          title |-> token.token,
                                          tags |-> tags,
                                          date |-> d.date,
                                          content |-> content,
                                          subsections |-> subsections.sections]))

\* the for loop of sections_from_hierarchized_tokens; `sections` is the
\* vector built so far, an error returns at once
RECURSIVE sections_loop(_, _, _)
sections_loop(hts, parent_date, sections) ==
    IF hts = <<>> THEN Ok(sections)
    ELSE LET token == Head(hts) IN
         IF ~IsHeading(token.token)
         THEN sections_loop(Tail(hts), parent_date, sections)
         ELSE LET tags == collect_tags(token.children)
                  d == resolve_date(parent_date, token.token.sub)
              IN IF ~d.ok THEN MDPSyntaxError(d.err)
                 ELSE LET content == collect_content(token.children)
                          subsections ==
                              sections_loop(token.children, Some(d.date), <<>>)
                      IN IF ~subsections.ok THEN subsections
                         ELSE sections_loop(Tail(hts), parent_date,
                                  Append(sections,
                                         [section_type |-> section_type_of(token.token),
                                          title |-> token.token,
                                          tags |-> tags,
                                          date |-> d.date,
                                          content |-> content,
                                          subsections |-> subsections.sections]))

\* sections_from_hierarchized_tokens
sections_from_hierarchized_tokens(hts, parent_date) ==
    sections_loop(hts, parent_date, <<>>)

----------------------------------------------------------------------------
(* Parser combinators (nom) as used by src/markdown/parsers.rs.  A parser   *)
(* returns POk(rest, out) or PErr(kind); every PErr is a nom::Err::Error,   *)
(* the recoverable error that lets `alt` try its next alternative.          *)

POk(rest, out) == [ok |-> TRUE, rest |-> rest, out |-> out, err |-> ""]
PErr(kind) == [ok |-> FALSE, rest |-> <<>>, out |-> <<>>, err |-> kind]

StartsWith(s, p) == Len(s) >= Len(p) /\ SubSeq(s, 1, Len(p)) = p
Drop(s, n) == SubSeq(s, n + 1, Len(s))
Take(s, n) == SubSeq(s, 1, n)

\* the length of the longest prefix of s whose characters all satisfy P
PrefixLen(s, P(_)) ==
    IF \A i \in 1..Len(s) : P(s[i]) THEN Len(s)
    ELSE (CHOOSE i \in 1..Len(s) : ~P(s[i]) /\ \A j \in 1..(i - 1) : P(s[j])) - 1

\* nom::bytes::complete::tag
tag(p, input) ==
    IF StartsWith(input, p) THEN POk(Drop(input, Len(p)), p) ELSE PErr("Tag")

\* nom::character::complete::char
char(c, input) ==
    IF input # <<>> /\ Head(input) = c THEN POk(Tail(input), c) ELSE PErr("Char")

\* the characters of multispace0 / multispace1
IsMultispace(c) == c \in {" ", "\t", "\r", "\n"}

\* nom::character::complete::multispace0
multispace0(input) ==
    LET n == PrefixLen(input, IsMultispace) IN POk(Drop(input, n), Take(input, n))

\* nom::character::complete::multispace1
multispace1(input) ==
    LET n == PrefixLen(input, IsMultispace)
    IN IF n = 0 THEN PErr("MultiSpace") ELSE POk(Drop(input, n), Take(input, n))

\* nom::bytes::complete::is_not
is_not(chars, input) ==
    LET n == PrefixLen(input, LAMBDA c : c \notin chars)
    IN IF n = 0 THEN PErr("IsNot") ELSE POk(Drop(input, n), Take(input, n))

\* nom::bytes::complete::take_until: up to the first occurrence of pat, which
\* is not consumed
take_until(pat, input) ==
    LET at == {i \in 0..Len(input) : StartsWith(Drop(input, i), pat)}
    IN IF at = {} THEN PErr("TakeUntil")
       ELSE LET i == CHOOSE x \in at : \A y \in at : x <= y
            IN POk(Drop(input, i), Take(input, i))

\* nom::combinator::all_consuming
all_consuming(r) ==
    IF r.ok /\ r.rest # <<>> THEN PErr("Eof") ELSE r

\* a panic of the thread: no alternative is tried after it
Panic == PErr("Panic")
IsPanic(r) == ~r.ok /\ r.err = "Panic"

\* one parser after another (tuple, pair, preceded, delimited and the ?
\* operator): the second runs on what the first left, an error ends the
\* sequence
Bind(r, F(_)) == IF r.ok THEN F(r) ELSE r

\* nom::branch::alt of two parsers: the second is tried after a recoverable
\* error of the first
OrElse(r, s) == IF r.ok \/ IsPanic(r) THEN r ELSE s

----------------------------------------------------------------------------
(* Inline parsers (src/markdown/parsers.rs) *)

\* the grave accent U+0060, which a TLA+ string cannot hold
Backtick == "BACKTICK"

\* nonws_char: neither whitespace nor a newline
nonws_char(c) == c \notin {" ", "\t", "\r", "\n"}

\* is_word_finish_char
is_word_finish_char(c) == c \in {",", ".", ":", ";", ")", "]"}

\* word
word(input) ==
    LET n == PrefixLen(input, LAMBDA c : nonws_char(c) /\ ~is_word_finish_char(c))
    IN IF n = 0 THEN PErr("TakeWhile1") ELSE POk(Drop(input, n), Take(input, n))

\* fenced(start, end): tuple((tag(start), take_until(end), tag(end))), the
\* middle is the output
fenced(start, end, input) ==
    Bind(tag(start, input), LAMBDA a :
    Bind(take_until(end, a.rest), LAMBDA b :
    POk(Drop(b.rest, Len(end)), b.out)))

\* link
link(input) == fenced(<<"[", "[">>, <<"]", "]">>, input)

\* link_or_word
link_or_word(input) == OrElse(link(input), word(input))

\* hashtag
hashtag(input) == Bind(char("#", input), LAMBDA h : link_or_word(h.rest))

\* tag_token
tag_token(input) == Bind(char("@", input), LAMBDA a : word(a.rest))

\* triple_backtick
triple_backtick(input) ==
    fenced(<<Backtick, Backtick, Backtick>>, <<Backtick, Backtick, Backtick>>, input)

\* single_backtick
single_backtick(input) ==
    Bind(char(Backtick, input), LAMBDA a :
    Bind(is_not({Backtick}, a.rest), LAMBDA b :
    Bind(char(Backtick, b.rest), LAMBDA c :
    POk(c.rest, b.out))))

\* block_ref
block_ref(input) == fenced(<<"(", "(">>, <<")", ")">>, input)

\* latex
latex(input) == fenced(<<"$", "$">>, <<"$", "$">>, input)

Digits == {"0", "1", "2", "3", "4", "5", "6", "7", "8", "9"}

\* what an input lacks when one of the three parsers that rest on a library
\* grammar cannot accept any prefix of it: an ISO 8601 date starts with
\* digits after an optional sign, an address holds an '@', and a located URL
\* starts with the first letter of a scheme UrlLocator knows
NoDateStart(input) ==
    \/ input = <<>>
    \/ Head(input) \notin Digits \cup {"+", "-"}
    \/ (Head(input) \in {"+", "-"} /\ (Len(input) < 2 \/ input[2] \notin Digits))
NoAddress(input) == \A i \in 1..Len(input) : input[i] # "@"
NoScheme(input) ==
    \/ input = <<>>
    \/ Head(input) \notin {"f", "g", "h", "m", "n", "s", "F", "G", "H", "M", "N", "S"}

Minimum(S) == CHOOSE x \in S : \A y \in S : x <= y
Maximum(S) == CHOOSE x \in S : \A y \in S : x >= y

\* the while loop of take_until_unbalanced; index is the 0-based byte index,
\* every character modelled is one byte long.  Slicing i[index..] with index
\* beyond the end (a lone trailing backslash skips the default char too)
\* panics.
RECURSIVE take_until_unbalanced_loop(_, _, _, _, _)
take_until_unbalanced_loop(opening_bracket, closing_bracket, i, index, bracket_counter) ==
    IF index > Len(i) THEN Panic
    ELSE
    LET found == {k \in (index + 1)..Len(i) :
                     i[k] \in {opening_bracket, closing_bracket, "\\"}}
    IN IF found = {}
       THEN IF bracket_counter = 0 THEN POk(<<>>, i)
            ELSE PErr("UnbalancedBracketCount")
       ELSE LET at == Minimum(found) - 1
                c == i[at + 1]
            IN CASE c = "\\" ->
                      take_until_unbalanced_loop(opening_bracket, closing_bracket,
                                                 i, at + 2, bracket_counter)
                 [] c # "\\" /\ c = opening_bracket ->
                      take_until_unbalanced_loop(opening_bracket, closing_bracket,
                                                 i, at + 1, bracket_counter + 1)
                 [] OTHER ->
                      IF bracket_counter - 1 = -1
                      THEN POk(Drop(i, at), Take(i, at))
                      ELSE take_until_unbalanced_loop(opening_bracket, closing_bracket,
                                                      i, at + 1, bracket_counter - 1)

\* take_until_unbalanced
take_until_unbalanced(opening_bracket, closing_bracket, i) ==
    take_until_unbalanced_loop(opening_bracket, closing_bracket, i, 0, 0)

\* markdown_link: the output is the pair <<title, url>>
markdown_link(input) ==
    Bind(fenced(<<"[">>, <<"]">>, input), LAMBDA t :
    Bind(char("(", t.rest), LAMBDA o :
    Bind(take_until_unbalanced("(", ")", o.rest), LAMBDA u :
    Bind(char(")", u.rest), LAMBDA c :
    POk(c.rest, <<t.out, u.out>>)))))

\* image
image(input) == Bind(char("!", input), LAMBDA b : markdown_link(b.rest))

DigitValue(c) ==
    CASE c = "0" -> 0 [] c = "1" -> 1 [] c = "2" -> 2 [] c = "3" -> 3
      [] c = "4" -> 4 [] c = "5" -> 5 [] c = "6" -> 6 [] c = "7" -> 7
      [] c = "8" -> 8 [] c = "9" -> 9

AllDigits(s) == \A i \in 1..Len(s) : s[i] \in Digits

\* NaiveDate::from_ymd_opt(..).is_some()
IsCalendarDate(year, month, day) ==
    /\ month \in 1..12
    /\ day >= 1
    /\ day <= CASE month \in {4, 6, 9, 11} -> 30
                [] month = 2 ->
                     IF (year % 4 = 0 /\ year % 100 # 0) \/ year % 400 = 0
                     THEN 29 ELSE 28
                [] OTHER -> 31

\* date, for the calendar form YYYY-MM-DD of iso8601::parsers::parse_date;
\* the output is the date as NaiveDate formats it (%Y-%m-%d).  The signed,
\* week and ordinal forms and the forms without '-' are not modelled.
date(input) ==
    IF NoDateStart(input) \/ Head(input) \notin Digits \/ Len(input) < 10
    THEN PErr("InvalidISO8601Date")
    ELSE LET y == Take(input, 4)
             m == SubSeq(input, 6, 7)
             d == SubSeq(input, 9, 10)
         IN IF /\ AllDigits(y) /\ AllDigits(m) /\ AllDigits(d)
               /\ input[5] = "-" /\ input[8] = "-"
               /\ IsCalendarDate(
                      1000 * DigitValue(y[1]) + 100 * DigitValue(y[2])
                        + 10 * DigitValue(y[3]) + DigitValue(y[4]),
                      10 * DigitValue(m[1]) + DigitValue(m[2]),
                      10 * DigitValue(d[1]) + DigitValue(d[2]))
            THEN POk(Drop(input, 10), Take(input, 10))
            ELSE PErr("InvalidISO8601Date")

MinEmailLength == 5
MaxEmailLength == 50

\* EmailAddress::parse(s, None).is_some(), for addresses local@domain whose
\* two parts are dot-atoms: non-empty runs of characters other than the
\* specials, separated by single dots
IsDotAtom(s) ==
    /\ s # <<>>
    /\ s[1] # "." /\ s[Len(s)] # "."
    /\ \A i \in 1..Len(s) :
         /\ s[i] \notin {" ", "\t", "\r", "\n", "@", "(", ")", "<", ">", "[", "]",
                         ":", ";", ",", "\\", "\""}
         /\ (i < Len(s) /\ s[i] = ".") => s[i + 1] # "."

IsEmailAddress(s) ==
    \E k \in 2..(Len(s) - 1) :
        s[k] = "@" /\ IsDotAtom(Take(s, k - 1)) /\ IsDotAtom(Drop(s, k))

\* char::len_utf8 of the characters of the model
len_utf8(c) == IF c = "é" THEN 2 ELSE 1

\* str::len: the length in bytes
RECURSIVE str_len(_)
str_len(s) == IF s = <<>> THEN 0 ELSE len_utf8(Head(s)) + str_len(Tail(s))

\* the number of characters that end at byte index n, if n is a char boundary
CharsTo(s, n) == {k \in 0..Len(s) : str_len(Take(s, k)) = n}

\* str::get(..n): None when n is beyond the end or inside a character
get_to(s, n) ==
    IF CharsTo(s, n) = {} THEN None ELSE Some(Take(s, Maximum(CharsTo(s, n))))

\* str::get(n..)
get_from(s, n) ==
    IF CharsTo(s, n) = {} THEN None ELSE Some(Drop(s, Maximum(CharsTo(s, n))))

\* Option::unwrap_or and the match on an Option
unwrap_or(o, default) == IF o = None THEN default ELSE o[1]

\* email: the for loop, from the longest prefix down
email_loop(input, considered_input, fits) ==
    IF fits = {} THEN PErr("InvalidEmailAddress")
    ELSE POk(unwrap_or(get_from(input, Maximum(fits)), <<>>),
             get_to(considered_input, Maximum(fits))[1])

\* email: the prefix lengths the loop accepts
email_fits(considered_input) ==
    {i \in MinEmailLength..str_len(considered_input) :
        /\ get_to(considered_input, i) # None
        /\ \A j \in 1..Len(get_to(considered_input, i)[1]) : considered_input[j] # " "
        /\ IsEmailAddress(get_to(considered_input, i)[1])}

\* email: considered_input is input.get(..50), or the input itself when
\* that is None
email_considered(input, considered_input) ==
    email_loop(input, considered_input, email_fits(considered_input))

\* email
email(input) ==
    IF NoAddress(input) THEN PErr("InvalidEmailAddress")
    ELSE email_considered(input, unwrap_or(get_to(input, MaxEmailLength), input))

\* the schemes UrlLocator knows
UrlSchemes ==
    { <<"h", "t", "t", "p", "s">>, <<"h", "t", "t", "p">>, <<"f", "t", "p">>,
      <<"f", "i", "l", "e">>, <<"g", "i", "t">>, <<"s", "s", "h">>,
      <<"m", "a", "i", "l", "t", "o">>, <<"n", "e", "w", "s">> }

\* raw_url: UrlLocator is fed from the first character, so the input has to
\* start with a scheme and ':'; the URL then runs up to the first character
\* that cannot be part of one.  Only this much of the locator is modelled.
raw_url(input) ==
    IF NoScheme(input) THEN PErr("InvalidRawURL")
    ELSE LET starts == {sc \in UrlSchemes : StartsWith(input, sc \o <<":">>)} IN
         IF starts = {} THEN PErr("InvalidRawURL")
         ELSE LET sc == CHOOSE x \in starts : \A y \in starts : Len(x) >= Len(y)
                  body == Drop(input, Len(sc) + 1)
                  n == PrefixLen(body,
                         LAMBDA c : c \notin {" ", "\t", "\r", "\n", "<", ">", "\"",
                                               "{", "}", "|", "\\", "^", Backtick})
              IN IF n = 0 THEN PErr("InvalidRawURL")
                 ELSE POk(Drop(input, Len(sc) + 1 + n), Take(input, Len(sc) + 1 + n))

RECURSIVE parse_inline(_)

\* style(boundary): map_parser(fenced(boundary, boundary), parse_inline)
style(boundary, input) ==
    Bind(fenced(boundary, boundary, input), LAMBDA f :
    Bind(parse_inline(f.out), LAMBDA inner :
    POk(f.rest, inner.out)))

\* bold, italic, strike, highlight
bold(input) == style(<<"*", "*">>, input)
italic(input) == style(<<"*">>, input)
strike(input) == style(<<"~", "~">>, input)
highlight(input) == style(<<"^", "^">>, input)

\* map(parser, constructor) for a parser result
MapOut(r, type) ==
    IF r.ok THEN POk(r.rest, Token(type, r.out, <<>>)) ELSE r
MapSub(r, type) ==
    IF r.ok THEN POk(r.rest, Token(type, "", r.out)) ELSE r

\* the first alternative of directive: a Markdown link is internal when its
\* url starts with '#'
markdown_link_token(input) ==
    Bind(markdown_link(input), LAMBDA r :
    POk(r.rest,
        Token(IF StartsWith(r.out[2], <<"#">>)
               THEN "MarkdownInternalLink" ELSE "MarkdownExternalLink",
               r.out, <<>>)))

\* the k-th alternative of directive, in the order of alt
directive_alternative(k, input) ==
    CASE k = 1 -> markdown_link_token(input)
      [] k = 2 -> MapOut(date(input), "Date")
      [] k = 3 -> MapOut(email(input), "Email")
      [] k = 4 -> MapOut(tag_token(input), "Tag")
      [] k = 5 -> MapOut(triple_backtick(input), "TripleBacktick")
      [] k = 6 -> MapOut(single_backtick(input), "SingleBacktick")
      [] k = 7 -> MapOut(hashtag(input), "Hashtag")
      [] k = 8 -> MapOut(block_ref(input), "BlockRef")
      [] k = 9 -> MapOut(image(input), "Image")
      [] k = 10 -> MapOut(link(input), "Link")
      [] k = 11 -> MapSub(bold(input), "Bold")
      [] k = 12 -> MapSub(italic(input), "Italic")
      [] k = 13 -> MapSub(strike(input), "Strike")
      [] k = 14 -> MapSub(highlight(input), "Highlight")
      [] k = 15 -> MapOut(latex(input), "Latex")
      [] k = 16 -> MapOut(raw_url(input), "RawHyperlink")

\* nom::branch::alt from the k-th alternative on: the first result that is
\* Ok (or no recoverable error), the last error if all fail
RECURSIVE directive_alt(_, _)
directive_alt(input, k) ==
    IF k = 16 THEN directive_alternative(16, input)
    ELSE OrElse(directive_alternative(k, input), directive_alt(input, k + 1))

\* directive
directive(input) == directive_alt(input, 1)

\* one step of the for loop of parse_inline: a directive that matches (or
\* panics) at current_index ends the loop, otherwise the next index is tried
directive_hit(r, current_index, next) ==
    IF r.ok \/ IsPanic(r) THEN <<current_index, r>> ELSE next

\* the for loop of parse_inline over char_indices: the first index at which
\* a directive matches, with its result; <<>> if there is none
RECURSIVE first_directive(_, _)
first_directive(current_input, current_index) ==
    IF current_index >= Len(current_input) THEN <<>>
    ELSE directive_hit(directive(Drop(current_input, current_index)),
                       current_index,
                       first_directive(current_input, current_index + 1))

RECURSIVE parse_inline_loop(_, _)

\* the body of the while loop of parse_inline, hit being the outcome of its
\* for loop
parse_inline_step(current_input, output, hit) ==
    IF hit = <<>>
    THEN POk(<<>>, Append(output, Token("Text", current_input, <<>>)))
    ELSE IF IsPanic(hit[2]) THEN Panic
    ELSE parse_inline_loop(
             hit[2].rest,
             (IF hit[1] > 0
              THEN Append(output, Token("Text", Take(current_input, hit[1]), <<>>))
              ELSE output) \o <<hit[2].out>>)

\* the while loop of parse_inline
parse_inline_loop(current_input, output) ==
    IF current_input = <<>> THEN POk(<<>>, output)
    ELSE parse_inline_step(current_input, output, first_directive(current_input, 0))

\* parse_inline
parse_inline(input) == parse_inline_loop(input, <<>>)

----------------------------------------------------------------------------
(* Line parsers (src/markdown/parsers.rs) and the tokenizer                 *)
(* (src/markdown/tokenize.rs)                                               *)

\* attribute: separated_pair(is_not(":`"), tag("::"), parse_inline); the
\* output is the pair <<name, value>>
attribute(input) ==
    Bind(is_not({":", Backtick}, input), LAMBDA name :
    Bind(tag(<<":", ":">>, name.rest), LAMBDA sep :
    Bind(parse_inline(sep.rest), LAMBDA value :
    POk(value.rest, <<name.out, value.out>>))))

\* the alt of task: the status named by the prefix; TodoUntil carries its date
task_status(input) ==
    LET todo == tag(<<"T", "O", "D", "O", ":">>, input)
        doing == tag(<<"D", "O", "I", "N", "G", ":">>, input)
        review == tag(<<"R", "E", "V", "I", "E", "W", ":">>, input)
        done == tag(<<"D", "O", "N", "E", ":">>, input)
    IN CASE todo.ok -> POk(todo.rest, <<"Todo">>)
         [] doing.ok -> POk(doing.rest, <<"Doing">>)
         [] review.ok -> POk(review.rest, <<"Review">>)
         [] done.ok -> POk(done.rest, <<"Done">>)
         [] OTHER ->
              Bind(tag(<<"T", "O", "D", "O", " ", "U", "N", "T", "I", "L", " ">>, input),
                   LAMBDA until :
              Bind(date(until.rest), LAMBDA d :
              Bind(tag(<<":">>, d.rest), LAMBDA colon :
              POk(colon.rest, <<"TodoUntil", d.out>>))))

\* task with optional instead of mandatory whitespace after the prefix
task_without_whitespace(input) ==
    Bind(task_status(input), LAMBDA st :
    Bind(multispace0(st.rest), LAMBDA ws :
    Bind(parse_inline(ws.rest), LAMBDA content :
    POk(<<>>, Token("Task", st.out, content.out)))))

\* task: the prefix, mandatory whitespace, and the rest of the input parsed
\* inline as the content; nothing remains
task(input) ==
    Bind(task_status(input), LAMBDA st :
    Bind(multispace1(st.rest), LAMBDA ws :
    Bind(parse_inline(ws.rest), LAMBDA content :
    POk(<<>>, Token("Task", st.out, content.out)))))

\* the match of heading on the number of '#'
heading_of_count(hashtag_count, content) ==
    CASE hashtag_count = 1 -> POk(content.rest, Token("HeadingH1", "", content.out))
      [] hashtag_count = 2 -> POk(content.rest, Token("HeadingH2", "", content.out))
      [] hashtag_count = 3 -> POk(content.rest, Token("HeadingH3", "", content.out))
      [] hashtag_count = 4 -> POk(content.rest, Token("HeadingH4", "", content.out))
      [] OTHER -> PErr("InvalidMarkdownHeading")

\* heading: many1_count(tag("#")), multispace1, the rest parsed inline; a
\* count other than 1..4 is the error InvalidMarkdownHeading
heading(input) ==
    LET hashtag_count == PrefixLen(input, LAMBDA c : c = "#") IN
    IF hashtag_count = 0 THEN PErr("Many1Count")
    ELSE Bind(multispace1(Drop(input, hashtag_count)), LAMBDA ws :
         Bind(parse_inline(ws.rest), LAMBDA content :
         heading_of_count(hashtag_count, content)))

\* the task alternative: pair(task, parse_inline), the task token first
task_line(input) ==
    Bind(task(input), LAMBDA t :
    Bind(parse_inline(t.rest), LAMBDA more :
    POk(more.rest, <<t.out>> \o more.out)))

\* the blockquote alternative: preceded(tag("> "), parse_inline)
blockquote(input) ==
    Bind(tag(<<">", " ">>, input), LAMBDA q : parse_inline(q.rest))

\* the parser of the k-th alternative of parse_line, in the order of alt
line_parser(k, input) ==
    CASE k = 1 -> multispace0(input)
      [] k = 2 -> tag(<<"-", "-", "-">>, input)
      [] k = 3 -> blockquote(input)
      [] k = 4 -> attribute(input)
      [] k = 5 -> task_line(input)
      [] k = 6 -> heading(input)
      [] k = 7 -> parse_inline(input)

\* the map of the k-th alternative of parse_line: the token list made of
\* the output of its parser
line_tokens(k, r) ==
    Bind(r, LAMBDA x :
    POk(x.rest,
        CASE k = 1 -> <<Leaf("Blank")>>
          [] k = 2 -> <<Leaf("HRule")>>
          [] k = 3 -> <<Token("BlockQuote", "", x.out)>>
          [] k = 4 -> <<Token("Attribute", x.out[1], x.out[2])>>
          [] k = 5 -> x.out
          [] k = 6 -> <<x.out>>
          [] k = 7 -> x.out))

\* line_alternative with the heading tried before the attribute and the task
line_alternative_heading_first(k, input) ==
    IF k = 4 THEN line_tokens(6, all_consuming(line_parser(6, input)))
    ELSE IF k \in {5, 6} THEN line_tokens(k - 1, all_consuming(line_parser(k - 1, input)))
    ELSE line_tokens(k, all_consuming(line_parser(k, input)))

\* the k-th alternative of parse_line: its parser under all_consuming, and
\* its map
line_alternative(k, input) ==
    line_tokens(k, all_consuming(line_parser(k, input)))

\* nom::branch::alt from the k-th alternative of parse_line on
RECURSIVE line_alt(_, _)
line_alt(input, k) ==
    IF k = 7 THEN line_alternative(7, input)
    ELSE OrElse(line_alternative(k, input), line_alt(input, k + 1))

\* parse_line: Ok(tokens) or Err(e)
parse_line(input) == line_alt(input, 1)

\* split_into_lines as str::lines would do it: no empty line after a final
\* line break
RECURSIVE split_into_lines_no_trailing(_)
split_into_lines_no_trailing(input) ==
    LET breaks == {i \in 1..Len(input) : input[i] = "\n"} IN
    IF breaks = {} THEN <<input>>
    ELSE IF Minimum(breaks) = Len(input) THEN <<Take(input, Len(input) - 1)>>
    ELSE <<Take(input, Minimum(breaks) - 1)>>
         \o split_into_lines_no_trailing(Drop(input, Minimum(breaks)))

\* split_into_lines: str::split('\n')
RECURSIVE split_into_lines(_)
split_into_lines(input) ==
    LET breaks == {i \in 1..Len(input) : input[i] = "\n"} IN
    IF breaks = {} THEN <<input>>
    ELSE <<Take(input, Minimum(breaks) - 1)>>
         \o split_into_lines(Drop(input, Minimum(breaks)))

\* MarkdownParseError::into_mdp_error
into_mdp_error(e, n) == [kind |-> "MarkdownParseError", msg |-> e, line_number |-> n]

\* Result<Vec<Token>, MDPError> of tokenize
TokensOk(toks) == [ok |-> TRUE, tokens |-> toks, errors |-> <<>>]
MultiError(errs) == [ok |-> FALSE, tokens |-> <<>>, errors |-> errs]

----------------------------------------------------------------------------
(* Inputs of the section builder *)

Date1 == <<"2", "0", "2", "2", "-", "1", "1", "-", "0", "2">>
Date2 == <<"2", "0", "2", "2", "-", "1", "1", "-", "0", "3">>

TokenUniverse ==
    { Container("HeadingH1", <<Textual("Date", Date1)>>),
      Container("HeadingH1", <<Textual("Date", Date2)>>),
      Container("HeadingH1", <<Textual("Text", <<"N", "o", "t", "e", "s">>)>>),
      Container("HeadingH1", <<Textual("Date", Date1), Textual("Date", Date2)>>),
      Container("HeadingH2", <<Textual("Text", <<"S", "c", "h", "o", "o", "l">>)>>),
      Container("HeadingH3", <<Textual("Date", Date2)>>),
      Container("HeadingH4", <<Textual("Tag", <<"a">>)>>),
      Textual("Tag", <<"a">>),
      Textual("Tag", <<"b">>),
      Leaf("Newline"),
      Leaf("HRule"),
      Leaf("Blank"),
      Token("Task", <<"Done">>, <<Textual("Tag", <<"b">>)>>) }

TokenLists == UNION {[1..n -> TokenUniverse] : n \in 0..MaxTokens}

NoStatus == new_status(0, 0)
NoResult == [ok |-> FALSE, sections |-> <<>>, err |-> "pending"]
NoTokens == [ok |-> FALSE, tokens |-> <<>>, errors |-> <<>>]

----------------------------------------------------------------------------
(* sections_from_tokens as a state machine *)

TokenizeIdle ==
    /\ markdown_string = <<>>
    /\ lines = <<>>
    /\ line_number = 0
    /\ markdown_elements = <<>>
    /\ errors = <<>>
    /\ tok_result = NoTokens
    /\ tpc = "idle"
    /\ rendered_tokens = None

\* no file is touched
IoIdle ==
    /\ files = <<>>
    /\ fs_log = <<>>

\* no command function is called
CommandIdle ==
    /\ args = <<>>
    /\ ret = <<>>
    /\ cpc = "idle"

Init ==
    /\ tokens \in TokenLists
    /\ hierarchical_tokens = <<>>
    /\ status = NoStatus
    /\ result = NoResult
    /\ pc = "start"
    /\ TokenizeIdle
    /\ CommandIdle
    /\ IoIdle

\* hierarchize_tokens_using_headings, up to the loop: wrap every token and
\* create the status
HierarchizeStart ==
    /\ pc = "start"
    /\ hierarchical_tokens' = [i \in 1..Len(tokens) |-> from_token(tokens[i])]
    /\ status' = new_status(Len(HierarchyLevels), MaxRecursionLevel)
    /\ pc' = "hierarchize"
    /\ UNCHANGED <<tokens, result>>
    /\ UNCHANGED tokenize_vars
    /\ UNCHANGED command_vars
    /\ UNCHANGED io_vars

\* one iteration of the loop of hierarchize_tokens_using_headings
HierarchizePass ==
    /\ pc = "hierarchize"
    /\ hierarchical_tokens' =
           hierarchize_recursive_one_hierarchy_level(
               hierarchical_tokens, status, is_hierarchy_root(status))
    /\ IF one_hierarchy_level_deeper(status) = None
       THEN /\ pc' = "materialize"
            /\ UNCHANGED status
       ELSE /\ status' = one_hierarchy_level_deeper(status)[1]
            /\ UNCHANGED pc
    /\ UNCHANGED <<tokens, result>>
    /\ UNCHANGED tokenize_vars
    /\ UNCHANGED command_vars
    /\ UNCHANGED io_vars

\* sections_from_tokens: the call of sections_from_hierarchized_tokens
Materialize ==
    /\ pc = "materialize"
    /\ result' = sections_from_hierarchized_tokens(hierarchical_tokens, None)
    /\ pc' = "done"
    /\ UNCHANGED <<tokens, hierarchical_tokens, status>>
    /\ UNCHANGED tokenize_vars
    /\ UNCHANGED command_vars
    /\ UNCHANGED io_vars

Next == HierarchizeStart \/ HierarchizePass \/ Materialize

Spec == Init /\ [][Next]_vars

----------------------------------------------------------------------------
(* Properties of the section builder *)

Done == pc = "done"

\* the indices of the Date tokens among the direct tokens of a title
DateIndices(title) == {j \in 1..Len(title.sub) : title.sub[j].type = "Date"}

\* an H1 title with exactly one Date among its direct tokens
WellDatedTitle(title) == Cardinality(DateIndices(title)) = 1

\* the indices of the H1 tokens of the input whose title is not well dated
BadH1Indices ==
    {i \in 1..Len(tokens) : tokens[i].type = "HeadingH1" /\ ~WellDatedTitle(tokens[i])}

RECURSIVE DatesFollowH1(_, _)
DatesFollowH1(sections, enclosing) ==
    \A i \in 1..Len(sections) :
        LET s == sections[i] IN
        IF s.section_type = "H1"
        THEN /\ WellDatedTitle(s.title)
             /\ \A j \in DateIndices(s.title) : s.date = s.title.sub[j].val
             /\ DatesFollowH1(s.subsections, Some(s.date))
        ELSE /\ enclosing # None
             /\ s.date = enclosing[1]
             /\ DatesFollowH1(s.subsections, enclosing)

\* C1: on success every H1 section carries the single Date of its title and
\* every H2, H3 or H4 section carries the date of the H1 section enclosing it.
C1_SectionDates == (Done /\ result.ok) => DatesFollowH1(result.sections, None)

\* an H3 section (whose own title holds another date) below an H2 below an H1
C1_Witness ==
    /\ Done /\ result.ok
    /\ \E i \in 1..Len(result.sections) :
         LET s == result.sections[i] IN
         /\ s.date = Date1
         /\ \E j \in 1..Len(s.subsections) :
              LET h2 == s.subsections[j] IN
              /\ h2.section_type = "H2"
              /\ \E k \in 1..Len(h2.subsections) :
                   /\ h2.subsections[k].section_type = "H3"
                   /\ h2.subsections[k].title.sub[1] = Textual("Date", Date2)
                   /\ h2.subsections[k].date = Date1

\* C2: an H1 title with no Date, or with several, among its direct tokens
\* makes sections_from_tokens return an MDPSyntaxError and no section at all,
\* whatever the other H1 sections are; the message is that of the first such
\* H1 in the input.
C2_BadH1IsFatal ==
    (Done /\ BadH1Indices # {}) =>
        LET first == CHOOSE i \in BadH1Indices : \A j \in BadH1Indices : i <= j IN
        /\ ~result.ok
        /\ result.sections = <<>>
        /\ result.err = IF DateIndices(tokens[first]) = {} THEN NoDateMsg
                        ELSE ManyDatesMsg

\* a well-formed H1 comes first, an H1 with two dates later: still no sections
C2_Witness ==
    /\ Done
    /\ Len(tokens) >= 2
    /\ tokens[1] = Container("HeadingH1", <<Textual("Date", Date1)>>)
    /\ \E i \in BadH1Indices : Cardinality(DateIndices(tokens[i])) = 2
    /\ result = MDPSyntaxError(ManyDatesMsg)

IsHeadingNode(n) == IsHeading(n.token)
IsTagNode(n) == n.token.type = "Tag"

\* the payloads of the Tag tokens among the nodes, in order
TagPayloads(nodes) ==
    LET tagged == SelectSeq(nodes, IsTagNode)
    IN [i \in 1..Len(tagged) |-> tagged[i].token.val]

RECURSIVE TagsAreDirectChildren(_, _)
TagsAreDirectChildren(nodes, sections) ==
    LET headings == SelectSeq(nodes, IsHeadingNode) IN
    /\ Len(sections) = Len(headings)
    /\ \A i \in 1..Len(sections) :
         /\ sections[i].title = headings[i].token
         /\ sections[i].tags = TagPayloads(headings[i].children)
         /\ TagsAreDirectChildren(headings[i].children, sections[i].subsections)

\* C3: the tags of a section are the payloads of the Tag tokens that are
\* direct children of its heading in the hierarchized forest, in order and
\* with duplicates; tags nested in other tokens or in subsections are left out.
C3_TagsAreDirectChildTags ==
    (Done /\ result.ok) =>
        TagsAreDirectChildren(SelectSeq(hierarchical_tokens, IsHeadingNode),
                              result.sections)

\* a section with a repeated direct tag and a Task that holds another tag
C3_Witness ==
    /\ Done /\ result.ok
    /\ \E i \in 1..Len(result.sections) :
         LET s == result.sections[i] IN
         /\ s.tags = <<<<"a">>, <<"a">>>>
         /\ \E j \in 1..Len(s.content) :
              /\ s.content[j].type = "Task"
              /\ s.content[j].sub = <<Textual("Tag", <<"b">>)>>

IsDroppedNode(n) == n.token.type \in {"HRule", "Blank"}
IsKeptNode(n) == ~IsDroppedNode(n)

\* the child tokens before the first heading child, HRule and Blank removed
ContentPrefix(children) ==
    LET stops == {j \in 1..Len(children) : IsHeadingNode(children[j])}
        last == IF stops = {} THEN Len(children)
                ELSE (CHOOSE j \in stops : \A k \in stops : j <= k) - 1
        kept == SelectSeq(SubSeq(children, 1, last), IsKeptNode)
    IN [i \in 1..Len(kept) |-> kept[i].token]

RECURSIVE ContentIsPrefix(_, _)
ContentIsPrefix(nodes, sections) ==
    LET headings == SelectSeq(nodes, IsHeadingNode) IN
    /\ Len(sections) = Len(headings)
    /\ \A i \in 1..Len(sections) :
         /\ sections[i].title = headings[i].token
         /\ sections[i].content = ContentPrefix(headings[i].children)
         /\ ContentIsPrefix(headings[i].children, sections[i].subsections)

\* C4: the content of a section is the sequence of the direct child tokens of
\* its heading up to, and excluding, the first child heading, with HRule and
\* Blank removed and every other token, Newline included, kept in order.
C4_ContentIsChildPrefix ==
    (Done /\ result.ok) =>
        ContentIsPrefix(SelectSeq(hierarchical_tokens, IsHeadingNode),
                        result.sections)

\* Newline, then HRule or Blank, then a sub-heading: the content is Newline
C4_Witness ==
    /\ Done /\ result.ok
    /\ Len(tokens) = 4
    /\ tokens[2] = Leaf("Newline")
    /\ tokens[3] \in {Leaf("HRule"), Leaf("Blank")}
    /\ tokens[4].type = "HeadingH2"
    /\ Len(result.sections) = 1
    /\ result.sections[1].content = <<Leaf("Newline")>>
    /\ Len(result.sections[1].subsections) = 1

\* the heading level 1..4 of a heading token
Level(t) ==
    CASE t.type = "HeadingH1" -> 1
      [] t.type = "HeadingH2" -> 2
      [] t.type = "HeadingH3" -> 3
      [] t.type = "HeadingH4" -> 4

HeadingIndices == {i \in 1..Len(tokens) : IsHeading(tokens[i])}

RECURSIVE Ascending(_)
Ascending(S) ==
    IF S = {} THEN <<>> ELSE <<Minimum(S)>> \o Ascending(S \ {Minimum(S)})

\* the nearest preceding heading with a strictly smaller level number, 0 if none
ParentIndex(j) ==
    LET above == {k \in HeadingIndices : k < j /\ Level(tokens[k]) < Level(tokens[j])}
    IN IF above = {} THEN 0 ELSE Maximum(above)

\* the index of the next heading of any level after i, Len(tokens) + 1 if none
NextHeadingIndex(i) ==
    LET later == {j \in HeadingIndices : j > i}
    IN IF later = {} THEN Len(tokens) + 1 ELSE Minimum(later)

\* the date of the last H1 at or before i
EnclosingH1Date(i) ==
    LET h1 == Maximum({k \in 1..i : tokens[k].type = "HeadingH1"})
        d == CHOOSE j \in DateIndices(tokens[h1]) : TRUE
    IN tokens[h1].sub[d].val

\* the section that the single-pass push-down algorithm opens at heading i:
\* it holds the tokens up to the next heading, and the headings whose nearest
\* preceding heading of a smaller level number is i are its subsections
RECURSIVE PushDownSection(_)
PushDownSection(i) ==
    LET own == [k \in 1..(NextHeadingIndex(i) - i - 1) |-> tokens[i + k]]
        tagged == SelectSeq(own, LAMBDA t : t.type = "Tag")
        subs == Ascending({j \in HeadingIndices : ParentIndex(j) = i})
    IN [section_type |-> section_type_of(tokens[i]),
        title |-> tokens[i],
        tags |-> [k \in 1..Len(tagged) |-> tagged[k].val],
        date |-> EnclosingH1Date(i),
        content |-> SelectSeq(own, LAMBDA t : t.type \notin {"HRule", "Blank"}),
        subsections |-> [k \in 1..Len(subs) |-> PushDownSection(subs[k])]]

PushDownSections ==
    LET top == Ascending({j \in HeadingIndices : ParentIndex(j) = 0})
    IN [k \in 1..Len(top) |-> PushDownSection(top[k])]

FirstHeadingIsH1 ==
    /\ HeadingIndices # {}
    /\ tokens[Minimum(HeadingIndices)].type = "HeadingH1"

\* C5: when the first heading is an H1 and every H1 title is well dated, the
\* sections built by the multi-pass hierarchize algorithm are those of the
\* single-pass push-down algorithm: every heading is a subsection of the
\* nearest preceding heading with a strictly smaller level number, the H1
\* headings are the top-level sections and no skipped level is synthesized.
C5_EqualsPushDown ==
    (Done /\ FirstHeadingIsH1 /\ BadH1Indices = {}) =>
        result = Ok(PushDownSections)

\* H1, H3, a tag, H2: the H3 and the H2 are sibling subsections of the H1
C5_Witness ==
    /\ Done /\ result.ok
    /\ Len(tokens) = 4
    /\ tokens[1].type = "HeadingH1"
    /\ tokens[2].type = "HeadingH3"
    /\ tokens[3].type = "Tag"
    /\ tokens[4].type = "HeadingH2"
    /\ Len(result.sections) = 1
    /\ Len(result.sections[1].subsections) = 2
    /\ result.sections[1].subsections[1].section_type = "H3"
    /\ result.sections[1].subsections[1].tags = <<tokens[3].val>>
    /\ result.sections[1].subsections[2].section_type = "H2"

RECURSIVE AllSectionTitles(_)
AllSectionTitles(sections) ==
    IF sections = <<>> THEN {}
    ELSE {Head(sections).title}
         \cup AllSectionTitles(Head(sections).subsections)
         \cup AllSectionTitles(Tail(sections))

RECURSIVE HeadingTokensBelow(_)
HeadingTokensBelow(nodes) ==
    IF nodes = <<>> THEN {}
    ELSE (IF IsHeadingNode(Head(nodes)) THEN {Head(nodes).token} ELSE {})
         \cup HeadingTokensBelow(Head(nodes).children)
         \cup HeadingTokensBelow(Tail(nodes))

RECURSIVE CountSections(_)
CountSections(sections) ==
    IF sections = <<>> THEN 0
    ELSE 1 + CountSections(Head(sections).subsections)
           + CountSections(Tail(sections))

RECURSIVE CountHeadingNodes(_)
CountHeadingNodes(nodes) ==
    IF nodes = <<>> THEN 0
    ELSE (IF IsHeadingNode(Head(nodes)) THEN 1 ELSE 0)
         + CountHeadingNodes(Head(nodes).children)
         + CountHeadingNodes(Tail(nodes))

\* the top-level nodes of the hierarchized forest that are no headings
SkippedTopNodes == SelectSeq(hierarchical_tokens, LAMBDA n : ~IsHeadingNode(n))

\* C6 as stated: a heading that sits under a non-heading top-level node (the
\* synthetic Blank root) is still materialized as a section.
C6_AsStated ==
    (Done /\ result.ok) =>
        HeadingTokensBelow(SkippedTopNodes) \subseteq AllSectionTitles(result.sections)

\* C6, amended: a non-heading top-level node yields no section and is not
\* traversed either: the headings below it are dropped without an error, so
\* the sections are exactly the headings at or below the top-level headings.
C6_SkippedNodesAreNotTraversed ==
    (Done /\ BadH1Indices = {}) =>
        /\ result.ok
        /\ Len(result.sections) = Len(SelectSeq(hierarchical_tokens, IsHeadingNode))
        /\ CountSections(result.sections)
             = CountHeadingNodes(SelectSeq(hierarchical_tokens, IsHeadingNode))

\* an H2 and an H3 precede the first H1: one section, the H1, comes out
C6_Witness ==
    /\ Done /\ result.ok
    /\ Len(hierarchical_tokens) = 2
    /\ hierarchical_tokens[1].token = Leaf("Blank")
    /\ CountHeadingNodes(hierarchical_tokens[1].children) = 2
    /\ hierarchical_tokens[2].token.type = "HeadingH1"
    /\ CountSections(result.sections) = 1

----------------------------------------------------------------------------
(* Inputs of the tokenizer *)

\* most pieces an input string is made of
MaxPieces == 4

\* the pieces: single characters, and the longer runs that the line forms need
Pieces ==
    { <<"#">>, <<"#", "#", "#", "#">>, <<" ">>, <<"a">>, <<":">>,
      <<"-", "-", "-">>, <<">">>, <<"\n">>, <<"T", "O", "D", "O", ":">> }

RECURSIVE Concat(_)
Concat(pieces) ==
    IF pieces = <<>> THEN <<>> ELSE Head(pieces) \o Concat(Tail(pieces))

InputStrings ==
    {Concat(ps) : ps \in UNION {[1..n -> Pieces] : n \in 0..MaxPieces}}

----------------------------------------------------------------------------
(* tokenize as a state machine *)

SectionsIdle ==
    /\ tokens = <<>>
    /\ hierarchical_tokens = <<>>
    /\ status = NoStatus
    /\ result = NoResult
    /\ pc = "idle"

TokenizeInit ==
    /\ markdown_string \in InputStrings
    /\ lines = <<>>
    /\ line_number = 0
    /\ markdown_elements = <<>>
    /\ errors = <<>>
    /\ tok_result = NoTokens
    /\ tpc = "start"
    /\ rendered_tokens = None
    /\ SectionsIdle
    /\ CommandIdle
    /\ IoIdle

\* tokenize, up to the loop: the two vectors, and the lines of the input
TokenizeStart ==
    /\ tpc = "start"
    /\ lines' = split_into_lines(markdown_string)
    /\ line_number' = 0
    /\ errors' = <<>>
    /\ markdown_elements' = <<>>
    /\ tpc' = "lines"
    /\ UNCHANGED <<markdown_string, tok_result>>
    /\ UNCHANGED section_vars
    /\ UNCHANGED <<rendered_tokens, command_vars>>
    /\ UNCHANGED io_vars

\* the match of the loop body of tokenize on the result of parse_line, and
\* the push of the Newline; a panic ends the thread
TokenizeMatch(r) ==
    IF IsPanic(r)
    THEN /\ tpc' = "panicked"
         /\ UNCHANGED <<markdown_elements, errors, line_number>>
    ELSE /\ IF r.ok
            THEN /\ markdown_elements' =
                      Append(markdown_elements \o r.out, Leaf("Newline"))
                 /\ UNCHANGED errors
            ELSE /\ errors' = Append(errors, into_mdp_error(r.err, line_number))
                 /\ markdown_elements' = Append(markdown_elements, Leaf("Newline"))
         /\ line_number' = line_number + 1
         /\ UNCHANGED tpc

\* one iteration of the loop of tokenize: the tokens of the line or its
\* error, then a Newline
TokenizeLine ==
    /\ tpc = "lines"
    /\ line_number < Len(lines)
    /\ TokenizeMatch(parse_line(lines[line_number + 1]))
    /\ UNCHANGED <<markdown_string, lines, tok_result>>
    /\ UNCHANGED section_vars
    /\ UNCHANGED <<rendered_tokens, command_vars>>
    /\ UNCHANGED io_vars

\* tokenize, after the loop: Ok(markdown_elements) or MultiError(errors)
TokenizeReturn ==
    /\ tpc = "lines"
    /\ line_number = Len(lines)
    /\ tok_result' = IF errors = <<>> THEN TokensOk(markdown_elements)
                     ELSE MultiError(errors)
    /\ tpc' = "done"
    /\ UNCHANGED <<markdown_string, lines, line_number, markdown_elements, errors>>
    /\ UNCHANGED section_vars
    /\ UNCHANGED <<rendered_tokens, command_vars>>
    /\ UNCHANGED io_vars

TokenizeNext == TokenizeStart \/ TokenizeLine \/ TokenizeReturn

TokenizeSpec == TokenizeInit /\ [][TokenizeNext]_vars

----------------------------------------------------------------------------
(* Properties of the tokenizer *)

TokenizeDone == tpc = "done"

\* the number of Newline tokens in a token list, nested tokens included
RECURSIVE CountNewlines(_)
CountNewlines(toks) ==
    IF toks = <<>> THEN 0
    ELSE (IF Head(toks).type = "Newline" THEN 1 ELSE 0)
         + CountNewlines(Head(toks).sub)
         + CountNewlines(Tail(toks))

\* the number of line breaks in the input
LineBreaks == Cardinality({i \in 1..Len(markdown_string) : markdown_string[i] = "\n"})

\* the token list cut after each top-level Newline, the Newline left out
RECURSIVE LineSegments(_, _)
LineSegments(toks, current) ==
    IF toks = <<>> THEN (IF current = <<>> THEN <<>> ELSE <<current>>)
    ELSE IF Head(toks).type = "Newline"
         THEN <<current>> \o LineSegments(Tail(toks), <<>>)
         ELSE LineSegments(Tail(toks), Append(current, Head(toks)))

\* C7: after k lines the output holds k Newline tokens, one as the last
\* token of each line; on success their number is the number of lines, which
\* is the number of line breaks of the input plus one, and the empty input
\* yields Blank, Newline.
C7_OneNewlinePerLine ==
    /\ tpc = "lines" =>
         /\ CountNewlines(markdown_elements) = line_number
         /\ Len(LineSegments(markdown_elements, <<>>)) = line_number
         /\ line_number > 0 =>
              markdown_elements[Len(markdown_elements)] = Leaf("Newline")
    /\ (TokenizeDone /\ tok_result.ok) =>
         /\ CountNewlines(tok_result.tokens) = LineBreaks + 1
         /\ tok_result.tokens[Len(tok_result.tokens)] = Leaf("Newline")
         /\ markdown_string = <<>> =>
              tok_result.tokens = <<Leaf("Blank"), Leaf("Newline")>>

\* an input that ends with a line break after two lines: three Newline tokens
C7_Witness ==
    /\ TokenizeDone /\ tok_result.ok
    /\ LineBreaks = 2
    /\ markdown_string[Len(markdown_string)] = "\n"
    /\ markdown_string[1] = "a"
    /\ CountNewlines(tok_result.tokens) = 3

\* the first occurrence of "::" ends a non-empty name without ':' and '`'
AttributeForm(l) ==
    \E i \in 2..(Len(l) - 1) :
        /\ l[i] = ":" /\ l[i + 1] = ":"
        /\ \A j \in 1..(i - 1) : l[j] \notin {":", Backtick}

\* n '#' followed by a whitespace character
HashRun(l, n) ==
    /\ Len(l) > n
    /\ \A j \in 1..n : l[j] = "#"
    /\ IsMultispace(l[n + 1])

\* a line that the specification rejects: five or more '#' and whitespace, in
\* none of the forms tried before the heading
InvalidHeadingLine(l) ==
    /\ \E n \in 5..Len(l) : HashRun(l, n)
    /\ ~AttributeForm(l)

\* the 0-based indices of the rejected lines, in increasing order
RejectedLines ==
    Ascending({k \in 0..(Len(lines) - 1) : InvalidHeadingLine(lines[k + 1])})

\* C8 as stated: every line is processed; the result is Ok iff no line
\* failed, and otherwise a MultiError with one MarkdownParseError per failed
\* line, carrying its 0-based index, in line order, and no tokens.
C8_AsStated ==
    TokenizeDone =>
        /\ line_number = Len(lines)
        /\ tok_result.ok <=> RejectedLines = <<>>
        /\ ~tok_result.ok =>
             /\ tok_result.tokens = <<>>
             /\ Len(tok_result.errors) = Len(RejectedLines)
             /\ \A i \in 1..Len(RejectedLines) :
                  /\ tok_result.errors[i].kind = "MarkdownParseError"
                  /\ tok_result.errors[i].line_number = RejectedLines[i]

\* C9 as stated: a document with a line of five or more '#' followed by
\* whitespace tokenizes to a MultiError with a MarkdownParseError for that
\* line.
C9_AsStated ==
    TokenizeDone =>
        \A k \in 0..(Len(lines) - 1) :
            InvalidHeadingLine(lines[k + 1]) =>
                /\ ~tok_result.ok
                /\ \E i \in 1..Len(tok_result.errors) :
                     /\ tok_result.errors[i].kind = "MarkdownParseError"
                     /\ tok_result.errors[i].line_number = k

\* the form of a line: the first, in the order of parse_line, that it fits
LineForm(l) ==
    CASE \A i \in 1..Len(l) : IsMultispace(l[i]) -> "blank"
      [] l = <<"-", "-", "-">> -> "hrule"
      [] StartsWith(l, <<">", " ">>) -> "blockquote"
      [] AttributeForm(l) -> "attribute"
      [] task_status(l).ok /\ multispace1(task_status(l).rest).ok -> "task"
      [] \E n \in 1..4 : HashRun(l, n) -> "heading"
      [] OTHER -> "inline"

\* the tokens of a line of the given form
FormTokens(l) ==
    LET form == LineForm(l) IN
    CASE form = "blank" -> <<Leaf("Blank")>>
      [] form = "hrule" -> <<Leaf("HRule")>>
      [] form = "blockquote" ->
           <<Token("BlockQuote", "", parse_inline(Drop(l, 2)).out)>>
      [] form = "attribute" ->
           LET i == Minimum({j \in 1..Len(l) : l[j] = ":"})
           IN <<Token("Attribute", Take(l, i - 1), parse_inline(Drop(l, i + 1)).out)>>
      [] form = "task" ->
           LET st == task_status(l)
           IN <<Token("Task", st.out, parse_inline(multispace1(st.rest).rest).out)>>
      [] form = "heading" ->
           LET n == Maximum({m \in 1..4 : HashRun(l, m)})
               body == Drop(l, n)
           IN <<Token(HierarchyLevels[n], "",
                      parse_inline(Drop(body, PrefixLen(body, IsMultispace))).out)>>
      [] OTHER -> parse_inline(l).out

\* C10: every line is tokenized by exactly one alternative, the first in the
\* order blank, horizontal rule, block quote, attribute, task, heading,
\* inline that consumes the whole line; a line that fits several forms is
\* tokenized by the earlier one only.
C10_FirstAlternativeWins ==
    tpc \in {"lines", "done"} =>
        LET segments == LineSegments(markdown_elements, <<>>) IN
        /\ Len(segments) = line_number
        /\ \A k \in 1..line_number : segments[k] = FormTokens(lines[k])

\* a line that has both the heading and the attribute form is an Attribute
C10_Witness ==
    /\ TokenizeDone
    /\ \E k \in 1..Len(lines) :
         /\ HashRun(lines[k], 1)
         /\ AttributeForm(lines[k])
         /\ LineSegments(tok_result.tokens, <<>>)[k]
              = <<Token("Attribute", <<"#", " ">>, <<>>)>>

----------------------------------------------------------------------------
(* tokenize on task lines *)

TaskPieces ==
    { <<"T", "O", "D", "O", ":">>, <<"D", "O", "I", "N", "G", ":">>,
      <<"R", "E", "V", "I", "E", "W", ":">>, <<"D", "O", "N", "E", ":">>,
      <<"T", "O", "D", "O", " ", "U", "N", "T", "I", "L", " ",
        "2", "0", "2", "3", "-", "1", "0", "-", "1", "0">>,
      <<"T", "O", "D", "O", " ", "U", "N", "T", "I", "L", " ",
        "2", "0", "2", "3", "-", "0", "2", "-", "3", "0">>,
      <<":">>, <<" ">>, <<"a">>, <<"#">> }

TaskStrings ==
    {Concat(ps) : ps \in UNION {[1..n -> TaskPieces] : n \in 0..MaxPieces}}

TaskInit ==
    /\ markdown_string \in TaskStrings
    /\ lines = <<>>
    /\ line_number = 0
    /\ markdown_elements = <<>>
    /\ errors = <<>>
    /\ tok_result = NoTokens
    /\ tpc = "start"
    /\ rendered_tokens = None
    /\ SectionsIdle
    /\ CommandIdle
    /\ IoIdle

TaskSpec == TaskInit /\ [][TokenizeNext]_vars

\* the literal task prefixes and the status each one names
SimpleTaskPrefixes ==
    { << <<"T", "O", "D", "O", ":">>, <<"Todo">> >>,
      << <<"D", "O", "I", "N", "G", ":">>, <<"Doing">> >>,
      << <<"R", "E", "V", "I", "E", "W", ":">>, <<"Review">> >>,
      << <<"D", "O", "N", "E", ":">>, <<"Done">> >> }

UntilPrefix == <<"T", "O", "D", "O", " ", "U", "N", "T", "I", "L", " ">>

\* the task prefixes a line starts with: the length of each and its status
TaskPrefixes(l) ==
    {[len |-> Len(q[1]), status |-> q[2]] :
        q \in {x \in SimpleTaskPrefixes : StartsWith(l, x[1])}}
    \cup
    (IF /\ StartsWith(l, UntilPrefix)
        /\ date(Drop(l, Len(UntilPrefix))).ok
        /\ StartsWith(date(Drop(l, Len(UntilPrefix))).rest, <<":">>)
     THEN {[len |-> Len(l) - Len(date(Drop(l, Len(UntilPrefix))).rest) + 1,
            status |-> <<"TodoUntil", date(Drop(l, Len(UntilPrefix))).out>>]}
     ELSE {})

\* a task prefix followed by at least one whitespace character
HasTaskForm(l) ==
    \E p \in TaskPrefixes(l) : Len(l) > p.len /\ IsMultispace(l[p.len + 1])

\* the one Task token of a line of the task form
TaskTokenOf(l) ==
    LET p == CHOOSE x \in TaskPrefixes(l) : Len(l) > x.len /\ IsMultispace(l[x.len + 1])
        body == Drop(l, p.len)
    IN Token("Task", p.status,
             parse_inline(Drop(body, PrefixLen(body, IsMultispace))).out)

\* the number of Task tokens in a token list, nested tokens included
RECURSIVE CountTasks(_)
CountTasks(toks) ==
    IF toks = <<>> THEN 0
    ELSE (IF Head(toks).type = "Task" THEN 1 ELSE 0)
         + CountTasks(Head(toks).sub)
         + CountTasks(Tail(toks))

\* C11: a line yields a Task token iff it starts with a task prefix followed
\* by whitespace; it then yields exactly that one token, with the status the
\* prefix names and the inline parse of the rest as its content; every other
\* line is left to the later alternatives and holds no Task token.
C11_TaskLines ==
    tpc \in {"lines", "done"} =>
        LET segments == LineSegments(markdown_elements, <<>>) IN
        \A k \in 1..line_number :
            IF HasTaskForm(lines[k])
            THEN segments[k] = <<TaskTokenOf(lines[k])>>
            ELSE CountTasks(segments[k]) = 0

\* a dated task with its content
C11_Witness ==
    /\ TokenizeDone
    /\ markdown_string = UntilPrefix
           \o <<"2", "0", "2", "3", "-", "1", "0", "-", "1", "0", ":", " ", "a">>
    /\ tok_result.tokens =
         << Token("Task",
                  <<"TodoUntil", <<"2", "0", "2", "3", "-", "1", "0", "-", "1", "0">> >>,
                  <<Token("Text", <<"a">>, <<>>)>>),
            Leaf("Newline") >>

----------------------------------------------------------------------------
(* Rendering (src/models/token.rs) and tokenize on inline text *)

\* Display of TaskStatus
task_status_string(st) ==
    CASE st[1] = "Todo" -> <<"T", "O", "D", "O">>
      [] st[1] = "TodoUntil" ->
           <<"T", "O", "D", "O", " ", "U", "N", "T", "I", "L", " ">> \o st[2]
      [] st[1] = "Doing" -> <<"D", "O", "I", "N", "G">>
      [] st[1] = "Review" -> <<"R", "E", "V", "I", "E", "W">>
      [] st[1] = "Done" -> <<"D", "O", "N", "E">>

RECURSIVE child_tokens_as_markdown_string(_)

\* Token::to_markdown_string
to_markdown_string(t) ==
    LET children == child_tokens_as_markdown_string(t.sub) IN
    CASE t.type = "Blank" -> <<>>
      [] t.type = "HRule" -> <<"-", "-", "-">>
      [] t.type = "Newline" -> <<"\n">>
      [] t.type = "BlockRef" -> <<"(", "(">> \o t.val \o <<")", ")">>
      [] t.type = "Hashtag" -> <<"#">> \o t.val
      [] t.type = "Latex" -> <<"$", "$">> \o t.val \o <<"$", "$">>
      [] t.type = "Link" -> <<"[", "[">> \o t.val \o <<"]", "]">>
      [] t.type = "SingleBacktick" -> <<Backtick>> \o t.val \o <<Backtick>>
      [] t.type = "Tag" -> <<"@">> \o t.val
      [] t.type = "TripleBacktick" ->
           <<Backtick, Backtick, Backtick>> \o t.val \o <<Backtick, Backtick, Backtick>>
      [] t.type \in {"Email", "RawHyperlink", "Text", "Date"} -> t.val
      [] t.type = "BlockQuote" -> <<">", " ">> \o children
      [] t.type = "Bold" -> <<"*", "*">> \o children \o <<"*", "*">>
      [] t.type = "Highlight" -> <<"^", "^">> \o children \o <<"^", "^">>
      [] t.type = "Italic" -> <<"*">> \o children \o <<"*">>
      [] t.type = "Strike" -> <<"~", "~">> \o children \o <<"~", "~">>
      [] t.type = "HeadingH1" -> <<"#", " ">> \o children
      [] t.type = "HeadingH2" -> <<"#", "#", " ">> \o children
      [] t.type = "HeadingH3" -> <<"#", "#", "#", " ">> \o children
      [] t.type = "HeadingH4" -> <<"#", "#", "#", "#", " ">> \o children
      [] t.type = "Attribute" -> t.val \o <<":", ":">> \o children
      [] t.type = "Image" ->
           <<"!", "[">> \o t.val[1] \o <<"]", "(">> \o t.val[2] \o <<")">>
      [] t.type \in {"MarkdownExternalLink", "MarkdownInternalLink"} ->
           <<"[">> \o t.val[1] \o <<"]", "(">> \o t.val[2] \o <<")">>
      [] t.type = "Task" -> task_status_string(t.val) \o <<":", " ">> \o children

\* Token::child_tokens_as_markdown_string
child_tokens_as_markdown_string(toks) ==
    IF toks = <<>> THEN <<>>
    ELSE to_markdown_string(Head(toks)) \o child_tokens_as_markdown_string(Tail(toks))

InlinePieces ==
    { <<"#">>, <<"[", "[">>, <<"]", "]">>, <<"[", "a", "]", "(">>, <<")">>,
      <<"\\">>, <<"a">>, <<" ">> }

InlineStrings ==
    {Concat(ps) : ps \in UNION {[1..n -> InlinePieces] : n \in 0..MaxPieces}}

InlineInit ==
    /\ markdown_string \in InlineStrings
    /\ lines = <<>>
    /\ line_number = 0
    /\ markdown_elements = <<>>
    /\ errors = <<>>
    /\ tok_result = NoTokens
    /\ tpc = "start"
    /\ rendered_tokens = None
    /\ SectionsIdle
    /\ CommandIdle
    /\ IoIdle

\* the tokens that tokenize returned are written out, one to_markdown_string
\* after the other, and the text is tokenized again
Render ==
    /\ tpc = "done"
    /\ rendered_tokens = None
    /\ tok_result.ok
    /\ rendered_tokens' = Some(tok_result.tokens)
    /\ markdown_string' = child_tokens_as_markdown_string(tok_result.tokens)
    /\ lines' = <<>>
    /\ line_number' = 0
    /\ markdown_elements' = <<>>
    /\ errors' = <<>>
    /\ tok_result' = NoTokens
    /\ tpc' = "start"
    /\ UNCHANGED section_vars
    /\ UNCHANGED command_vars
    /\ UNCHANGED io_vars

RenderNext == TokenizeStart \/ TokenizeLine \/ TokenizeReturn \/ Render

InlineSpec == InlineInit /\ [][RenderNext]_vars

\* C12 as stated: parse_inline returns Ok with an empty remainder for every
\* line, so no line fails on its inline content and tokenize runs to its
\* end and returns Ok.
C12_AsStated ==
    /\ tpc # "panicked"
    /\ tpc = "done" => tok_result.ok
    /\ \A k \in 1..Len(lines) :
         parse_inline(lines[k]).ok /\ parse_inline(lines[k]).rest = <<>>

\* a token list without its Blank and Newline tokens
WithoutBlankAndNewline(toks) ==
    SelectSeq(toks, LAMBDA t : t.type \notin {"Blank", "Newline"})

\* C13 as stated: the rendering of the tokens of an input tokenizes to the
\* same tokens, but for Blank and Newline tokens.
C13_AsStated ==
    (tpc = "done" /\ rendered_tokens # None) =>
        /\ tok_result.ok
        /\ WithoutBlankAndNewline(tok_result.tokens)
             = WithoutBlankAndNewline(rendered_tokens[1])

----------------------------------------------------------------------------
(* Token::contains (src/models/token.rs) *)

\* the cases of Token::contains that hold child tokens
ChildBearingTypes ==
    {"BlockQuote", "Bold", "Highlight", "Italic", "Strike",
     "HeadingH1", "HeadingH2", "HeadingH3", "HeadingH4", "Attribute", "Task"}

RECURSIVE contains(_, _)

\* the for loop of Token::contains over the child tokens
RECURSIVE contains_loop(_, _, _)
contains_loop(toks, token, found) ==
    IF toks = <<>> THEN found
    ELSE contains_loop(Tail(toks), token,
                       IF Head(toks) = token \/ contains(Head(toks), token)
                       THEN TRUE ELSE found)

\* Token::contains
contains(self, token) ==
    IF self.type \in ChildBearingTypes
    THEN contains_loop(self.sub, token, FALSE)
    ELSE self = token

ContainsLeaves == {Textual("Text", <<"a">>), Textual("Tag", <<"b">>)}

\* tokens nested at most n deep: a Bold or a Task with no child, one child,
\* or a leaf and a child in either order
RECURSIVE NestedTokens(_)
NestedTokens(n) ==
    IF n = 0 THEN ContainsLeaves
    ELSE LET below == NestedTokens(n - 1)
             kids == {<<>>} \cup {<<x>> : x \in below}
                     \cup {<<l, x>> : l \in ContainsLeaves, x \in below}
                     \cup {<<x, l>> : l \in ContainsLeaves, x \in below}
         IN ContainsLeaves
            \cup {Container("Bold", k) : k \in kids}
            \cup {Token("Task", <<"Todo">>, k) : k \in kids}

ContainsArgs ==
    {<<s, t>> : s \in NestedTokens(MaxNesting), t \in NestedTokens(1)}
    \cup {<<s, s>> : s \in NestedTokens(MaxNesting)}

ContainsInit ==
    /\ args \in ContainsArgs
    /\ ret = <<>>
    /\ cpc = "contains"
    /\ IoIdle
    /\ SectionsIdle
    /\ TokenizeIdle

\* the call self.contains(token)
CallContains ==
    /\ cpc = "contains"
    /\ ret' = <<contains(args[1], args[2])>>
    /\ cpc' = "done"
    /\ UNCHANGED args
    /\ UNCHANGED io_vars
    /\ UNCHANGED section_vars
    /\ UNCHANGED tokenize_vars

ContainsSpec == ContainsInit /\ [][CallContains]_vars

\* t is s or a direct or indirect child token of s
RECURSIVE IsSelfOrChild(_, _)
IsSelfOrChild(s, t) ==
    s = t \/ \E i \in 1..Len(s.sub) : IsSelfOrChild(s.sub[i], t)

\* C14 as stated: contains(t) is true iff self equals t or a direct or
\* indirect child token of self equals t.
C14_AsStated ==
    cpc = "done" => (ret[1] <=> IsSelfOrChild(args[1], args[2]))

----------------------------------------------------------------------------
(* Section::contains_tag (src/models/sections.rs) *)

RECURSIVE contains_tag(_, _)

\* contains_tag that looks at the section's own tags only
contains_tag_own_only(self, tag_name) ==
    \E i \in 1..Len(self.tags) : self.tags[i] = tag_name

\* the for loop of contains_tag over the subsections
RECURSIVE contains_tag_loop(_, _)
contains_tag_loop(subsections, tag_name) ==
    IF subsections = <<>> THEN FALSE
    ELSE IF contains_tag(Head(subsections), tag_name) THEN TRUE
    ELSE contains_tag_loop(Tail(subsections), tag_name)

\* Section::contains_tag
contains_tag(self, tag_name) ==
    IF \E i \in 1..Len(self.tags) : self.tags[i] = tag_name THEN TRUE
    ELSE contains_tag_loop(self.subsections, tag_name)

\* a section with the given tags and subsections
TaggedSection(level, tags, subsections) ==
    [section_type |-> section_type_of(Leaf(HierarchyLevels[level])),
     title |-> Container(HierarchyLevels[level], <<Textual("Date", Date1)>>),
     tags |-> tags,
     date |-> Date1,
     content |-> [i \in 1..Len(tags) |-> Textual("Tag", tags[i])],
     subsections |-> subsections]

TagLists == {<<>>, <<<<"a">>>>, <<<<"b">>>>}

\* sections nested at most n deep below the given heading level: no
\* subsection, one, or a leaf section and one in either order
RECURSIVE NestedSections(_, _)
NestedSections(level, n) ==
    IF n = 0 THEN {TaggedSection(level, t, <<>>) : t \in TagLists}
    ELSE LET below == NestedSections(level + 1, n - 1)
             leaves == NestedSections(level + 1, 0)
             subs == {<<>>} \cup {<<x>> : x \in below}
                     \cup {<<l, x>> : l \in leaves, x \in below}
                     \cup {<<x, l>> : l \in leaves, x \in below}
         IN {TaggedSection(level, t, sb) : t \in TagLists, sb \in subs}

ContainsTagArgs ==
    {<<s, t>> : s \in NestedSections(1, MaxNesting), t \in {<<"a">>, <<"b">>, <<"c">>}}

ContainsTagInit ==
    /\ args \in ContainsTagArgs
    /\ ret = <<>>
    /\ cpc = "contains_tag"
    /\ IoIdle
    /\ SectionsIdle
    /\ TokenizeIdle

\* the call self.contains_tag(tag)
CallContainsTag ==
    /\ cpc = "contains_tag"
    /\ ret' = <<contains_tag(args[1], args[2])>>
    /\ cpc' = "done"
    /\ UNCHANGED args
    /\ UNCHANGED io_vars
    /\ UNCHANGED section_vars
    /\ UNCHANGED tokenize_vars

ContainsTagSpec == ContainsTagInit /\ [][CallContainsTag]_vars

\* the tags of a section and of the subsections at every depth below it
RECURSIVE TagsAtAnyDepth(_)
TagsAtAnyDepth(s) ==
    {s.tags[i] : i \in 1..Len(s.tags)}
    \cup UNION {TagsAtAnyDepth(s.subsections[i]) : i \in 1..Len(s.subsections)}

\* C15: contains_tag(x) is true iff x is one of the section's own tags or
\* one of the tags of a subsection at any depth below it.
C15_ContainsTag ==
    cpc = "done" => (ret[1] <=> args[2] \in TagsAtAnyDepth(args[1]))

\* the tag is found two levels down, behind a sibling that lacks it
C15_Witness ==
    /\ cpc = "done"
    /\ ret[1]
    /\ args[2] \notin {args[1].tags[i] : i \in 1..Len(args[1].tags)}
    /\ Len(args[1].subsections) = 2
    /\ args[2] \notin TagsAtAnyDepth(args[1].subsections[1])
    /\ args[2] \notin {args[1].subsections[2].tags[i] :
                          i \in 1..Len(args[1].subsections[2].tags)}

----------------------------------------------------------------------------
(* The search command (src/commands/search/command.rs) *)

Date3 == <<"2", "0", "2", "2", "-", "1", "1", "-", "0", "4">>

\* the order of NaiveDate: a date YYYY-MM-DD as the number YYYYMMDD
DateKey(d) ==
    10000000 * DigitValue(d[1]) + 1000000 * DigitValue(d[2])
    + 100000 * DigitValue(d[3]) + 10000 * DigitValue(d[4])
    + 1000 * DigitValue(d[6]) + 100 * DigitValue(d[7])
    + 10 * DigitValue(d[9]) + DigitValue(d[10])

\* Vec<String>::contains
VecContains(v, x) == \E i \in 1..Len(v) : v[i] = x

\* tags_match
tags_match(tags, tag_search_terms, mode) ==
    CASE mode = "Or" ->
           \E i \in 1..Len(tag_search_terms) : VecContains(tags, tag_search_terms[i])
      [] mode = "And" ->
           \A i \in 1..Len(tag_search_terms) : VecContains(tags, tag_search_terms[i])

\* matched_tags
matched_tags(tags, tag_search_terms) ==
    SelectSeq(tag_search_terms, LAMBDA t : VecContains(tags, t))

\* in_date_range
in_date_range(d, from, until) ==
    IF from # None /\ DateKey(d) < DateKey(from[1]) THEN FALSE
    ELSE IF until # None /\ DateKey(d) > DateKey(until[1]) THEN FALSE
    ELSE TRUE

\* search that does not descend below a section that matched
RECURSIVE search_stopping_at_match(_, _, _, _, _)
search_stopping_at_match(sections, search_terms, mode, from, until) ==
    IF sections = <<>> THEN <<>>
    ELSE LET s == Head(sections) IN
         (IF tags_match(s.tags, search_terms, mode) /\ in_date_range(s.date, from, until)
          THEN <<[section |-> s, matched_tags |-> matched_tags(s.tags, search_terms)]>>
          ELSE search_stopping_at_match(s.subsections, search_terms, mode, from, until))
         \o search_stopping_at_match(Tail(sections), search_terms, mode, from, until)

\* search: the for loop over the sections, with the recursive call on the
\* subsections of each
RECURSIVE search(_, _, _, _, _)
search(sections, search_terms, mode, from, until) ==
    IF sections = <<>> THEN <<>>
    ELSE LET s == Head(sections) IN
         (IF tags_match(s.tags, search_terms, mode) /\ in_date_range(s.date, from, until)
          THEN <<[section |-> s, matched_tags |-> matched_tags(s.tags, search_terms)]>>
          ELSE <<>>)
         \o search(s.subsections, search_terms, mode, from, until)
         \o search(Tail(sections), search_terms, mode, from, until)

\* a section of the given level and date
DatedSection(level, d, tags, subsections) ==
    [section_type |-> section_type_of(Leaf(HierarchyLevels[level])),
     title |-> Container(HierarchyLevels[level],
                         IF level = 1 THEN <<Textual("Date", d)>> ELSE <<>>),
     tags |-> tags,
     date |-> d,
     content |-> [i \in 1..Len(tags) |-> Textual("Tag", tags[i])],
     subsections |-> subsections]

SearchTagLists == {<<>>, <<<<"a">>>>, <<<<"a">>, <<"b">>>>}

\* section trees of one date nested at most n deep: no subsection, one, or
\* one after a leaf section tagged a
RECURSIVE SectionTrees(_, _, _)
SectionTrees(level, d, n) ==
    IF n = 0 THEN {DatedSection(level, d, t, <<>>) : t \in SearchTagLists}
    ELSE LET below == SectionTrees(level + 1, d, n - 1)
             subs == {<<>>} \cup {<<x>> : x \in below}
                     \cup {<<DatedSection(level + 1, d, <<<<"a">>>>, <<>>), x>> : x \in below}
         IN {DatedSection(level, d, t, sb) : t \in SearchTagLists, sb \in subs}

SearchDates == {Date1, Date2, Date3}

\* the section lists searched: one H1, or an H1 followed by an H1 without
\* subsections
SearchSections ==
    {<<x>> : x \in UNION {SectionTrees(1, d, MaxNesting) : d \in SearchDates}}
    \cup {<<x, y>> : x \in UNION {SectionTrees(1, d, MaxNesting - 1) : d \in SearchDates},
                     y \in UNION {SectionTrees(1, d, 0) : d \in SearchDates}}

SearchTermLists ==
    {<<>>, <<<<"a">>>>, <<<<"a">>, <<"b">>>>, <<<<"b">>, <<"a">>>>}

SearchInit ==
    /\ args \in [sections : SearchSections,
                 search_terms : SearchTermLists,
                 mode : {"And", "Or"},
                 from : {None, Some(Date2)},
                 until : {None, Some(Date2)}]
    /\ ret = <<>>
    /\ cpc = "search"
    /\ IoIdle
    /\ SectionsIdle
    /\ TokenizeIdle

\* run: the call of search
CallSearch ==
    /\ cpc = "search"
    /\ ret' = search(args.sections, args.search_terms, args.mode, args.from, args.until)
    /\ cpc' = "done"
    /\ UNCHANGED args
    /\ UNCHANGED io_vars
    /\ UNCHANGED section_vars
    /\ UNCHANGED tokenize_vars

SearchSpec == SearchInit /\ [][CallSearch]_vars

\* the sections of a list and their subsections at every depth, in document
\* order: a section before its subsections
RECURSIVE PreOrder(_)
PreOrder(sections) ==
    IF sections = <<>> THEN <<>>
    ELSE <<Head(sections)>> \o PreOrder(Head(sections).subsections)
         \o PreOrder(Tail(sections))

TagSet(s) == {s.tags[i] : i \in 1..Len(s.tags)}

TermSet == {args.search_terms[i] : i \in 1..Len(args.search_terms)}

\* the own tags of a section satisfy the mode
SatisfiesMode(s) ==
    IF args.mode = "And" THEN TermSet \subseteq TagSet(s)
    ELSE TermSet \cap TagSet(s) # {}

\* the search terms present in the tags of a section, in search-term order
TermsPresent(s) == SelectSeq(args.search_terms, LAMBDA t : t \in TagSet(s))

\* the results made of the sections that pass, in document order
ResultsOf(Passes(_)) ==
    LET hits == SelectSeq(PreOrder(args.sections), Passes)
    IN [i \in 1..Len(hits) |-> [section |-> hits[i], matched_tags |-> TermsPresent(hits[i])]]

\* C16: search returns, in document pre-order, exactly the sections at any
\* depth whose own tags satisfy the mode and whose date is in range, each
\* with the search terms present in its tags, in search-term order.
C16_Search ==
    cpc = "done" =>
        ret = ResultsOf(LAMBDA s : SatisfiesMode(s)
                                   /\ in_date_range(s.date, args.from, args.until))

\* an H1 and an H3 below it match both terms, the H2 between them does not
C16_Witness ==
    /\ cpc = "done"
    /\ args.mode = "And"
    /\ args.search_terms = <<<<"b">>, <<"a">>>>
    /\ Len(ret) = 2
    /\ ret[1].section.section_type = "H1"
    /\ ret[2].section.section_type = "H3"
    /\ ret[2].matched_tags = <<<<"b">>, <<"a">>>>
    /\ Len(PreOrder(args.sections)) >= 3

\* the date is after --from and before --until, where given
StrictlyInRange(s) ==
    /\ args.from # None => DateKey(s.date) > DateKey(args.from[1])
    /\ args.until # None => DateKey(s.date) < DateKey(args.until[1])

\* C18 as stated: with --from d only sections dated after d are returned,
\* with --until d only sections dated before d; a bound that is not given
\* does not restrict the result.
C18_AsStated ==
    cpc = "done" =>
        ret = ResultsOf(LAMBDA s : SatisfiesMode(s) /\ StrictlyInRange(s))

----------------------------------------------------------------------------
(* ordered_search_result_sections (src/commands/search/command.rs) *)

\* Ord::cmp of two numbers: "Less", "Equal" or "Greater"
Cmp(x, y) == IF x < y THEN "Less" ELSE IF x > y THEN "Greater" ELSE "Equal"

\* Ordering::reverse
Reverse(o) == IF o = "Less" THEN "Greater" ELSE IF o = "Greater" THEN "Less" ELSE o

\* the closures of sort_by, without the second key
result_cmp_first_key_only(a, b, ordering) ==
    CASE ordering = "Relevance" -> Reverse(Cmp(Len(a.matched_tags), Len(b.matched_tags)))
      [] ordering = "Date" -> Cmp(DateKey(a.section.date), DateKey(b.section.date))

\* the closures handed to sort_by
result_cmp(a, b, ordering) ==
    CASE ordering = "Relevance" ->
           IF Reverse(Cmp(Len(a.matched_tags), Len(b.matched_tags))) = "Equal"
           THEN Cmp(DateKey(a.section.date), DateKey(b.section.date))
           ELSE Reverse(Cmp(Len(a.matched_tags), Len(b.matched_tags)))
      [] ordering = "Date" ->
           IF Cmp(DateKey(a.section.date), DateKey(b.section.date)) = "Equal"
           THEN Reverse(Cmp(Len(a.matched_tags), Len(b.matched_tags)))
           ELSE Cmp(DateKey(a.section.date), DateKey(b.section.date))

\* slice::sort_by is a stable sort: x goes behind the last element of the
\* sorted list that is not greater than it
sort_insert(sorted, x, ordering) ==
    LET n == Cardinality({i \in 1..Len(sorted) :
                             \A j \in 1..i : result_cmp(sorted[j], x, ordering) # "Greater"})
    IN SubSeq(sorted, 1, n) \o <<x>> \o SubSeq(sorted, n + 1, Len(sorted))

RECURSIVE sort_by(_, _, _)
sort_by(v, sorted, ordering) ==
    IF v = <<>> THEN sorted
    ELSE sort_by(Tail(v), sort_insert(sorted, Head(v), ordering), ordering)

\* ordered_search_result_sections
ordered_search_result_sections(results, ordering) == sort_by(results, <<>>, ordering)

\* search results: two dates, one or two matched tags, an H1 or an H2
ResultUniverse ==
    {[section |-> DatedSection(level, d, mt, <<>>), matched_tags |-> mt] :
        level \in {1, 2}, d \in {Date1, Date2},
        mt \in {<<<<"a">>>>, <<<<"a">>, <<"b">>>>}}

OrderInit ==
    /\ args \in [results : UNION {[1..n -> ResultUniverse] : n \in 0..MaxResults},
                 ordering : {"Relevance", "Date"}]
    /\ ret = <<>>
    /\ cpc = "order"
    /\ IoIdle
    /\ SectionsIdle
    /\ TokenizeIdle

\* search_results_to_string: the call of ordered_search_result_sections
CallOrder ==
    /\ cpc = "order"
    /\ ret' = ordered_search_result_sections(args.results, args.ordering)
    /\ cpc' = "done"
    /\ UNCHANGED args
    /\ UNCHANGED io_vars
    /\ UNCHANGED section_vars
    /\ UNCHANGED tokenize_vars

OrderSpec == OrderInit /\ [][CallOrder]_vars

\* the two sort keys of a result under the ordering, smaller first
SortKeys(r) ==
    IF args.ordering = "Relevance"
    THEN <<0 - Len(r.matched_tags), DateKey(r.section.date)>>
    ELSE <<DateKey(r.section.date), 0 - Len(r.matched_tags)>>

KeysAscending(x, y) == x[1] < y[1] \/ (x[1] = y[1] /\ x[2] <= y[2])

\* C17: the result is a permutation of the input, sorted by the two keys of
\* the ordering (Relevance: matched tags descending, then date ascending;
\* Date: date ascending, then matched tags descending), and results equal
\* on both keys keep their input order.
C17_Ordered ==
    cpc = "done" =>
        /\ Len(ret) = Len(args.results)
        /\ \E p \in [1..Len(ret) -> 1..Len(ret)] :
             /\ \A i, j \in 1..Len(ret) : p[i] = p[j] => i = j
             /\ \A i \in 1..Len(ret) : ret[i] = args.results[p[i]]
             /\ \A i, j \in 1..Len(ret) :
                  i < j =>
                    /\ KeysAscending(SortKeys(ret[i]), SortKeys(ret[j]))
                    /\ SortKeys(ret[i]) = SortKeys(ret[j]) => p[i] < p[j]

\* three results: the last one moves to the front, the first two are equal
\* on both keys, differ, and keep their order
C17_Witness ==
    /\ cpc = "done"
    /\ Len(ret) = 3
    /\ ret[1] = args.results[3]
    /\ ret[2] = args.results[1]
    /\ ret[3] = args.results[2]
    /\ SortKeys(ret[2]) = SortKeys(ret[3])
    /\ ret[2] # ret[3]
    /\ SortKeys(ret[1])[1] = SortKeys(ret[2])[1]

----------------------------------------------------------------------------
(* The tasks command (src/commands/task/command.rs) *)

\* Task
Task(content, st) == [content |-> content, status |-> st]

\* Task::is_finished with Review counted as finished
is_finished_with_review(t) == t.status[1] \in {"Done", "Review"}

\* Task::is_finished
is_finished(t) == t.status[1] = "Done"

\* Task::is_unfinished
is_unfinished(t) == ~is_finished(t)

IsLeapYear(y) == y % 4 = 0 /\ (y % 100 # 0 \/ y % 400 = 0)

DaysBeforeMonth == <<0, 31, 59, 90, 120, 151, 181, 212, 243, 273, 304, 334>>

\* NaiveDate: the number of the day in the proleptic Gregorian calendar
DayNumber(d) ==
    LET y == 1000 * DigitValue(d[1]) + 100 * DigitValue(d[2])
             + 10 * DigitValue(d[3]) + DigitValue(d[4])
        mo == 10 * DigitValue(d[6]) + DigitValue(d[7])
        dd == 10 * DigitValue(d[9]) + DigitValue(d[10])
    IN 365 * (y - 1) + ((y - 1) \div 4) - ((y - 1) \div 100) + ((y - 1) \div 400)
       + DaysBeforeMonth[mo] + (IF IsLeapYear(y) /\ mo > 2 THEN 1 ELSE 0) + dd

\* (d - today).num_days()
num_days(d, today) == DayNumber(d) - DayNumber(today)

\* i64::abs
Abs(x) == IF x < 0 THEN 0 - x ELSE x

\* Task::urgency with an overdue day weighing as much as a day to go
urgency_overdue_as_upcoming(t, today) ==
    CASE t.status[1] = "Done" -> 0
      [] t.status[1] = "Review" -> 10
      [] t.status[1] = "Doing" -> 20
      [] t.status[1] = "Todo" -> 30
      [] t.status[1] = "TodoUntil" -> 30 + Abs(num_days(t.status[2], today)) * 10

\* Task::urgency; today is the date Utc::now() gives
urgency(t, today) ==
    CASE t.status[1] = "Done" -> 0
      [] t.status[1] = "Review" -> 10
      [] t.status[1] = "Doing" -> 20
      [] t.status[1] = "Todo" -> 30
      [] t.status[1] = "TodoUntil" ->
           30 + (IF num_days(t.status[2], today) > 0
                 THEN num_days(t.status[2], today) * 10
                 ELSE Abs(num_days(t.status[2], today)) * 100)

\* filter_tasks
filter_tasks(tasks, filter) ==
    CASE filter = "All" -> tasks
      [] filter = "Finished" -> SelectSeq(tasks, is_finished)
      [] filter = "Unfinished" -> SelectSeq(tasks, is_unfinished)

\* slice::sort_by_key is a stable sort: t goes behind the last task of the
\* sorted list whose key is not greater than its own
sort_by_key_insert(sorted, t, today) ==
    LET n == Cardinality({i \in 1..Len(sorted) :
                             \A j \in 1..i : urgency(sorted[j], today) <= urgency(t, today)})
    IN SubSeq(sorted, 1, n) \o <<t>> \o SubSeq(sorted, n + 1, Len(sorted))

RECURSIVE sort_by_key(_, _, _)
sort_by_key(v, sorted, today) ==
    IF v = <<>> THEN sorted
    ELSE sort_by_key(Tail(v), sort_by_key_insert(sorted, Head(v), today), today)

\* order_tasks
order_tasks(tasks, ordering, today) ==
    CASE ordering = "Occurence" -> tasks
      [] ordering = "Urgency" -> sort_by_key(tasks, <<>>, today)

Due1 == <<"2", "0", "2", "3", "-", "1", "0", "-", "1", "0">>
Due2 == <<"2", "0", "2", "3", "-", "1", "0", "-", "1", "6">>
Due3 == <<"2", "0", "2", "3", "-", "1", "1", "-", "0", "2">>
Today1 == Due1
Today2 == <<"2", "0", "2", "3", "-", "1", "0", "-", "1", "1">>

\* every status, three due dates, and two tasks that differ in content only
TaskUniverse ==
    {Task(<<Token("Text", <<"a">>, <<>>)>>, st) :
        st \in {<<"Done">>, <<"Review">>, <<"Doing">>, <<"Todo">>,
                <<"TodoUntil", Due1>>, <<"TodoUntil", Due2>>, <<"TodoUntil", Due3>>}}
    \cup {Task(<<Token("Text", <<"b">>, <<>>)>>, st) : st \in {<<"Done">>, <<"Todo">>}}

TasksInit ==
    /\ args \in [tasks : UNION {[1..n -> TaskUniverse] : n \in 0..MaxTasks},
                 filter : {"All", "Unfinished", "Finished"},
                 ordering : {"Urgency", "Occurence"},
                 today : {Today1, Today2}]
    /\ ret = <<>>
    /\ cpc = "filter"
    /\ IoIdle
    /\ SectionsIdle
    /\ TokenizeIdle

\* run: let tasks = filter_tasks(tasks, config.filter)
CallFilterTasks ==
    /\ cpc = "filter"
    /\ ret' = filter_tasks(args.tasks, args.filter)
    /\ cpc' = "order"
    /\ UNCHANGED args
    /\ UNCHANGED io_vars
    /\ UNCHANGED section_vars
    /\ UNCHANGED tokenize_vars

\* run: let tasks = order_tasks(tasks, config.ordering)
CallOrderTasks ==
    /\ cpc = "order"
    /\ ret' = order_tasks(ret, args.ordering, args.today)
    /\ cpc' = "done"
    /\ UNCHANGED args
    /\ UNCHANGED io_vars
    /\ UNCHANGED section_vars
    /\ UNCHANGED tokenize_vars

TasksNext == CallFilterTasks \/ CallOrderTasks

TasksSpec == TasksInit /\ [][TasksNext]_vars

\* the tasks of a list at the positions of a set, in the order of the list
RECURSIVE TasksAt(_, _, _)
TasksAt(tasks, positions, i) ==
    IF i > Len(tasks) THEN <<>>
    ELSE (IF i \in positions THEN <<tasks[i]>> ELSE <<>>)
         \o TasksAt(tasks, positions, i + 1)

DonePositions == {i \in 1..Len(args.tasks) : args.tasks[i].status = <<"Done">>}

OtherPositions ==
    {i \in 1..Len(args.tasks) :
        args.tasks[i].status[1] \in {"Todo", "TodoUntil", "Doing", "Review"}}

\* the list handed to order_tasks
Shown ==
    TasksAt(args.tasks,
            CASE args.filter = "All" -> 1..Len(args.tasks)
              [] args.filter = "Finished" -> DonePositions
              [] args.filter = "Unfinished" -> OtherPositions,
            1)

\* the urgency key: days is the due date minus today
UrgencyKey(t) ==
    LET days == DayNumber(IF Len(t.status) = 2 THEN t.status[2] ELSE args.today)
                - DayNumber(args.today)
    IN CASE t.status = <<"Done">> -> 0
         [] t.status = <<"Review">> -> 10
         [] t.status = <<"Doing">> -> 20
         [] t.status = <<"Todo">> -> 30
         [] OTHER -> IF days > 0 THEN 30 + days * 10 ELSE 30 + (0 - days) * 100

\* C19: under Urgency the ordered list is a permutation of the list handed
\* to order_tasks, ascending in the urgency key, with tasks of equal key in
\* their order of occurrence; under Occurence it is that list unchanged.
C19_Urgency ==
    cpc = "done" =>
        /\ args.ordering = "Occurence" => ret = Shown
        /\ args.ordering = "Urgency" =>
             /\ Len(ret) = Len(Shown)
             /\ \E p \in [1..Len(ret) -> 1..Len(ret)] :
                  /\ \A i, j \in 1..Len(ret) : p[i] = p[j] => i = j
                  /\ \A i \in 1..Len(ret) : ret[i] = Shown[p[i]]
                  /\ \A i, j \in 1..Len(ret) :
                       i < j =>
                         /\ UrgencyKey(ret[i]) <= UrgencyKey(ret[j])
                         /\ UrgencyKey(ret[i]) = UrgencyKey(ret[j]) => p[i] < p[j]

\* on 2023-10-11: a task one day overdue (130), a task with five days to go
\* (80) and a plain Todo (30) come out in the reverse order
C19_Witness ==
    /\ cpc = "done"
    /\ args.ordering = "Urgency"
    /\ args.filter = "All"
    /\ args.today = Today2
    /\ Len(args.tasks) = 3
    /\ args.tasks[1].status = <<"TodoUntil", Due1>>
    /\ args.tasks[2].status = <<"TodoUntil", Due2>>
    /\ args.tasks[3].status = <<"Todo">>
    /\ UrgencyKey(args.tasks[1]) = 130
    /\ UrgencyKey(args.tasks[2]) = 80
    /\ ret = <<args.tasks[3], args.tasks[2], args.tasks[1]>>

\* the number of times a task occurs in a list
Occurrences(tasks, t) == Cardinality({i \in 1..Len(tasks) : tasks[i] = t})

\* C20: Finished gives the Done tasks, Unfinished the tasks of every other
\* status, All every task, each in the order of occurrence; and every task
\* occurs in the Finished and Unfinished lists together as often as in the
\* list, and no task occurs in both.
C20_Filter ==
    cpc = "order" =>
        /\ ret = Shown
        /\ filter_tasks(args.tasks, "All") = args.tasks
        /\ \A t \in TaskUniverse :
             /\ Occurrences(filter_tasks(args.tasks, "Finished"), t)
                + Occurrences(filter_tasks(args.tasks, "Unfinished"), t)
                = Occurrences(args.tasks, t)
             /\ \/ Occurrences(filter_tasks(args.tasks, "Finished"), t) = 0
                \/ Occurrences(filter_tasks(args.tasks, "Unfinished"), t) = 0

\* Unfinished keeps a Review task and drops the Done task between two others
C20_Witness ==
    /\ cpc = "order"
    /\ args.filter = "Unfinished"
    /\ Len(args.tasks) = 3
    /\ args.tasks[1].status = <<"Review">>
    /\ args.tasks[2].status = <<"Done">>
    /\ args.tasks[3].status = <<"Todo">>
    /\ ret = <<args.tasks[1], args.tasks[3]>>

----------------------------------------------------------------------------
(* The file system and FileWriter (src/commands/io.rs, the unix build) *)

\* what a path names: nothing (None), a file or a directory
File(content, read_only, readable) ==
    Some([kind |-> "file", content |-> content, read_only |-> read_only,
          readable |-> readable])

Dir(entries, listable) ==
    Some([kind |-> "dir", entries |-> entries, listable |-> listable])

EntryAt(path) == IF path \in DOMAIN files THEN files[path] ELSE None

\* FileWriter::file_exists that never sees the file
file_exists_never(path) == FALSE

\* FileWriter::file_exists: Path::exists
file_exists(path) == EntryAt(path) # None

\* unlink needs a file, not the permission to write it
remove_file_succeeds(path, fault) ==
    ~fault /\ EntryAt(path) # None /\ EntryAt(path)[1].kind = "file"

\* fs::write opens the file for writing: a read-only file is refused
open_succeeds(path, fault) ==
    /\ fault # "open"
    /\ \/ EntryAt(path) = None
       \/ (EntryAt(path)[1].kind = "file" /\ ~EntryAt(path)[1].read_only)

\* fs::metadata and fs::set_permissions need the entry
set_permissions_succeeds(path, fault) == ~fault /\ EntryAt(path) # None

WOk == <<"Ok">>
WErr(kind, path) == <<"Err", kind, path>>

LogEntry(op, ok, fault) == [op |-> op, ok |-> ok, fault |-> fault]

OutPath == "out"
Outputs == {<<"a">>, <<"b">>, <<>>}

WriteInit ==
    /\ \E before \in {None, Dir(<<>>, TRUE)}
                       \cup {File(<<"o">>, ro, TRUE) : ro \in BOOLEAN} :
         /\ files = [p \in {OutPath} |-> before]
         /\ args \in [path : {OutPath}, output : Outputs, call : {1}, before : {before}]
    /\ fs_log = <<>>
    /\ ret = <<>>
    /\ cpc = "delete_file"
    /\ SectionsIdle
    /\ TokenizeIdle

\* write_output: if self.file_exists() { self.delete_file()?; }
WriteDelete ==
    /\ cpc = "delete_file"
    /\ IF file_exists(args.path)
       THEN \E fault \in BOOLEAN :
              IF remove_file_succeeds(args.path, fault)
              THEN /\ files' = [files EXCEPT ![args.path] = None]
                   /\ fs_log' = Append(fs_log, LogEntry("remove_file", TRUE, FALSE))
                   /\ cpc' = "write"
                   /\ UNCHANGED ret
              ELSE /\ fs_log' = Append(fs_log, LogEntry("remove_file", FALSE, fault))
                   /\ ret' = WErr("IOError", args.path)
                   /\ cpc' = "returned"
                   /\ UNCHANGED files
       ELSE /\ cpc' = "write"
            /\ UNCHANGED <<files, fs_log, ret>>
    /\ UNCHANGED args
    /\ UNCHANGED section_vars
    /\ UNCHANGED tokenize_vars

\* write_output: fs::write(self.path.clone(), output).map_err(..)?; the
\* environment may fail the open or the write after the open
WriteWrite ==
    /\ cpc = "write"
    /\ \E fault \in {"none", "open", "write"} :
         IF open_succeeds(args.path, fault)
         THEN IF fault = "write"
              THEN /\ files' = [files EXCEPT ![args.path] = File(<<>>, FALSE, TRUE)]
                   /\ fs_log' = Append(fs_log, LogEntry("write", FALSE, TRUE))
                   /\ ret' = WErr("IOReadError", args.path)
                   /\ cpc' = "returned"
              ELSE /\ files' = [files EXCEPT ![args.path] =
                                   File(args.output, FALSE, TRUE)]
                   /\ fs_log' = Append(fs_log, LogEntry("write", TRUE, FALSE))
                   /\ cpc' = "make_read_only"
                   /\ UNCHANGED ret
         ELSE /\ fs_log' = Append(fs_log, LogEntry("write", FALSE, fault # "none"))
              /\ ret' = WErr("IOReadError", args.path)
              /\ cpc' = "returned"
              /\ UNCHANGED files
    /\ UNCHANGED args
    /\ UNCHANGED section_vars
    /\ UNCHANGED tokenize_vars

\* write_output: self.make_read_only()?; Ok(())
WriteMakeReadOnly ==
    /\ cpc = "make_read_only"
    /\ \E fault \in BOOLEAN :
         IF set_permissions_succeeds(args.path, fault)
         THEN /\ files' = [files EXCEPT ![args.path] =
                              File(files[args.path][1].content, TRUE, TRUE)]
              /\ fs_log' = Append(fs_log, LogEntry("set_permissions", TRUE, FALSE))
              /\ ret' = WOk
         ELSE /\ fs_log' = Append(fs_log, LogEntry("set_permissions", FALSE, fault))
              /\ ret' = WErr("IOError", args.path)
              /\ UNCHANGED files
    /\ cpc' = "returned"
    /\ UNCHANGED args
    /\ UNCHANGED section_vars
    /\ UNCHANGED tokenize_vars

\* a later write_output to the same path
WriteAgain ==
    /\ cpc = "returned"
    /\ args.call < MaxWrites
    /\ \E output \in Outputs :
         args' = [path |-> args.path, output |-> output, call |-> args.call + 1,
                  before |-> files[args.path]]
    /\ fs_log' = <<>>
    /\ ret' = <<>>
    /\ cpc' = "delete_file"
    /\ UNCHANGED files
    /\ UNCHANGED section_vars
    /\ UNCHANGED tokenize_vars

WriteNext == WriteDelete \/ WriteWrite \/ WriteMakeReadOnly \/ WriteAgain

WriteSpec == WriteInit /\ [][WriteNext]_vars

\* the steps of a call on a path that named a file or nothing before it
StepsOf(before) ==
    (IF before = None THEN <<>> ELSE <<"remove_file">>) \o <<"write", "set_permissions">>

\* C21: the file system calls of a write_output are an initial part of
\* delete (when the file exists), write, set read-only, in this order; a
\* failed call is the last one and the result is an error exactly then; a
\* call on a path that names a file or nothing succeeds unless a fault of
\* the environment hits it, also on a read-only file left by an earlier
\* call; after a success the file holds exactly the output and is read-only.
C21_WriteOutput ==
    cpc \in {"delete_file", "write", "make_read_only", "returned"} =>
        /\ Len(fs_log) <= Len(StepsOf(args.before))
        /\ \A i \in 1..Len(fs_log) :
             /\ fs_log[i].op = StepsOf(args.before)[i]
             /\ i < Len(fs_log) => fs_log[i].ok
        /\ cpc = "returned" =>
             /\ ret = WOk <=>
                  /\ Len(fs_log) = Len(StepsOf(args.before))
                  /\ \A i \in 1..Len(fs_log) : fs_log[i].ok
             /\ ret # WOk =>
                  /\ ret[1] = "Err"
                  /\ ~fs_log[Len(fs_log)].ok
             /\ /\ args.before = None \/ args.before[1].kind = "file"
                /\ \A i \in 1..Len(fs_log) : ~fs_log[i].fault
                => ret = WOk
             /\ ret = WOk => files[args.path] = File(args.output, TRUE, TRUE)

\* the second call replaces the content of the read-only file the first left
C21_Witness ==
    /\ cpc = "returned"
    /\ args.call = 2
    /\ args.before = File(<<"a">>, TRUE, TRUE)
    /\ args.output = <<"b">>
    /\ ret = WOk
    /\ [i \in 1..Len(fs_log) |-> fs_log[i].op] = <<"remove_file", "write", "set_permissions">>
    /\ files[args.path] = File(<<"b">>, TRUE, TRUE)

----------------------------------------------------------------------------
(* MarkdownFileReader (src/commands/io.rs) *)

\* Path::extension of the paths of the model
extension(path) ==
    CASE path \in {"a.md", "d/c.md", "d/f.md"} -> Some("md")
      [] path \in {"b.txt", "d/e.txt"} -> Some("txt")
      [] OTHER -> None

is_file(path) == EntryAt(path) # None /\ EntryAt(path)[1].kind = "file"

is_dir(path) == EntryAt(path) # None /\ EntryAt(path)[1].kind = "dir"

\* is_md_file
is_md_file(path) == is_file(path) /\ extension(path) = Some("md")

\* all_md_files: the entries of a directory that are Markdown files
md_files_in(entries) == SelectSeq(entries, is_md_file)

\* all_md_files: Ok(res) or the IOError of a directory that cannot be read
RECURSIVE all_md_files(_, _)
all_md_files(paths, res) ==
    IF paths = <<>> THEN <<"Ok", res>>
    ELSE IF is_dir(Head(paths))
         THEN IF EntryAt(Head(paths))[1].listable
              THEN all_md_files(Tail(paths),
                                res \o md_files_in(EntryAt(Head(paths))[1].entries))
              ELSE WErr("IOError", Head(paths))
         ELSE all_md_files(Tail(paths), Append(res, Head(paths)))

\* fs::read_to_string succeeds on a readable file
read_to_string_succeeds(path) == is_file(path) /\ EntryAt(path)[1].readable

\* format!("{}\n\n{}", s, content)
format_read(s, content) == s \o <<"\n", "\n">> \o content

\* the directory d lists its entries in an order of its own
ReadFileSystems ==
    {[p \in {"a.md", "b.txt", "d", "d/c.md", "d/e.txt", "d/f.md"} |->
        CASE p = "a.md" -> a
          [] p = "b.txt" -> File(<<"b">>, FALSE, TRUE)
          [] p = "d" -> Dir(entries, listable)
          [] p = "d/c.md" -> c
          [] p = "d/e.txt" -> File(<<"e">>, FALSE, TRUE)
          [] p = "d/f.md" -> Dir(<<>>, TRUE)] :
        a \in {None, File(<<"a">>, FALSE, TRUE), File(<<>>, FALSE, TRUE)},
        c \in {File(<<"c">>, TRUE, TRUE), File(<<"c">>, FALSE, FALSE)},
        entries \in {<<"d/c.md", "d/e.txt", "d/f.md">>, <<"d/f.md", "d/e.txt", "d/c.md">>},
        listable \in BOOLEAN}

ReadPaths == {"a.md", "b.txt", "d"}

\* args.md_files and args.s are the locals of read: the rest of the
\* iteration over all_md_files(paths) and the text read so far
ReadInit ==
    /\ files \in ReadFileSystems
    /\ fs_log = <<>>
    /\ args \in [paths : UNION {[1..n -> ReadPaths] : n \in 0..MaxPaths},
                 md_files : {<<>>}, s : {<<>>}]
    /\ ret = <<>>
    /\ cpc = "all_md_files"
    /\ SectionsIdle
    /\ TokenizeIdle

\* read: let mut s = String::new(); all_md_files(paths)?
ReadAllMdFiles ==
    /\ cpc = "all_md_files"
    /\ IF all_md_files(args.paths, <<>>)[1] = "Ok"
       THEN /\ args' = [args EXCEPT !.md_files = all_md_files(args.paths, <<>>)[2]]
            /\ cpc' = "for"
            /\ UNCHANGED ret
       ELSE /\ ret' = all_md_files(args.paths, <<>>)
            /\ cpc' = "returned"
            /\ UNCHANGED args
    /\ UNCHANGED io_vars
    /\ UNCHANGED section_vars
    /\ UNCHANGED tokenize_vars

\* read: one iteration of the for loop
ReadFile ==
    /\ cpc = "for"
    /\ args.md_files # <<>>
    /\ IF read_to_string_succeeds(Head(args.md_files))
       THEN /\ args' = [args EXCEPT
                           !.s = format_read(args.s, EntryAt(Head(args.md_files))[1].content),
                           !.md_files = Tail(args.md_files)]
            /\ UNCHANGED <<ret, cpc>>
       ELSE /\ ret' = WErr("IOReadError", Head(args.md_files))
            /\ cpc' = "returned"
            /\ UNCHANGED args
    /\ UNCHANGED io_vars
    /\ UNCHANGED section_vars
    /\ UNCHANGED tokenize_vars

\* read: Ok(s)
ReadReturn ==
    /\ cpc = "for"
    /\ args.md_files = <<>>
    /\ ret' = <<"Ok", args.s>>
    /\ cpc' = "returned"
    /\ UNCHANGED args
    /\ UNCHANGED io_vars
    /\ UNCHANGED section_vars
    /\ UNCHANGED tokenize_vars

ReadNext == ReadAllMdFiles \/ ReadFile \/ ReadReturn

ReadSpec == ReadInit /\ [][ReadNext]_vars

\* the files read resolves its paths to: a directory stands for its
\* Markdown files in the order it lists them, any other path for itself
RECURSIVE Resolved(_)
Resolved(paths) ==
    IF paths = <<>> THEN <<>>
    ELSE (IF EntryAt(Head(paths)) # None /\ EntryAt(Head(paths))[1].kind = "dir"
          THEN SelectSeq(EntryAt(Head(paths))[1].entries,
                         LAMBDA p : /\ EntryAt(p)[1].kind = "file"
                                    /\ p \in {"d/c.md", "d/f.md"})
          ELSE <<Head(paths)>>)
         \o Resolved(Tail(paths))

Readable(path) ==
    /\ EntryAt(path) # None
    /\ EntryAt(path)[1].kind = "file"
    /\ EntryAt(path)[1].readable

\* the contents of the files, with "\n\n" between consecutive ones
RECURSIVE Joined(_)
Joined(paths) ==
    IF paths = <<>> THEN <<>>
    ELSE IF Len(paths) = 1 THEN EntryAt(paths[1])[1].content
    ELSE EntryAt(paths[1])[1].content \o <<"\n", "\n">> \o Joined(Tail(paths))

Unlistable(paths) ==
    \E i \in 1..Len(paths) :
        /\ EntryAt(paths[i]) # None
        /\ EntryAt(paths[i])[1].kind = "dir"
        /\ ~EntryAt(paths[i])[1].listable

\* C22 as stated: when every resolved file can be read the result is their
\* contents joined with "\n\n" between consecutive files, and otherwise it
\* is the IOReadError of the first file that cannot be read.
C22_AsStated ==
    cpc = "returned" /\ ~Unlistable(args.paths) =>
        IF \A i \in 1..Len(Resolved(args.paths)) : Readable(Resolved(args.paths)[i])
        THEN ret = <<"Ok", Joined(Resolved(args.paths))>>
        ELSE \E i \in 1..Len(Resolved(args.paths)) :
               /\ ~Readable(Resolved(args.paths)[i])
               /\ \A j \in 1..(i - 1) : Readable(Resolved(args.paths)[j])
               /\ ret = WErr("IOReadError", Resolved(args.paths)[i])

----------------------------------------------------------------------------
(* take_until_unbalanced on every input (src/markdown/parsers.rs) *)

BracketChars == {"(", ")", "\\", "a"}

BracketInit ==
    /\ args \in [i : UNION {[1..n -> BracketChars] : n \in 0..MaxBracketInput}]
    /\ ret = <<>>
    /\ cpc = "take_until_unbalanced"
    /\ IoIdle
    /\ SectionsIdle
    /\ TokenizeIdle

\* markdown_link: take_until_unbalanced('(', ')')
CallTakeUntilUnbalanced ==
    /\ cpc = "take_until_unbalanced"
    /\ ret' = take_until_unbalanced("(", ")", args.i)
    /\ cpc' = "done"
    /\ UNCHANGED args
    /\ UNCHANGED io_vars
    /\ UNCHANGED section_vars
    /\ UNCHANGED tokenize_vars

BracketSpec == BracketInit /\ [][CallTakeUntilUnbalanced]_vars

\* the length of the prefix before the first ')' without a matching '(',
\* from position k at the given depth; a backslash and the character after
\* it are skipped; -1 when the input ends at a depth other than 0
RECURSIVE UnmatchedClose(_, _, _)
UnmatchedClose(i, k, depth) ==
    IF k > Len(i) THEN (IF depth = 0 THEN Len(i) ELSE 0 - 1)
    ELSE CASE i[k] = "\\" -> UnmatchedClose(i, k + 2, depth)
           [] i[k] = "(" -> UnmatchedClose(i, k + 1, depth + 1)
           [] i[k] = ")" -> IF depth = 0 THEN k - 1
                            ELSE UnmatchedClose(i, k + 1, depth - 1)
           [] OTHER -> UnmatchedClose(i, k + 1, depth)

\* C23 as stated: for every input the call returns, either the split of
\* the input just before the first unmatched ')' or, when the input ends at
\* a depth other than 0, the UnbalancedBracketCount error.
C23_AsStated ==
    cpc = "done" =>
        IF UnmatchedClose(args.i, 1, 0) = 0 - 1
        THEN ret = PErr("UnbalancedBracketCount")
        ELSE ret = POk(Drop(args.i, UnmatchedClose(args.i, 1, 0)),
                       SubSeq(args.i, 1, UnmatchedClose(args.i, 1, 0)))

----------------------------------------------------------------------------
(* email on long inputs (src/markdown/parsers.rs) *)

\* 49 letters, so that a character after them starts at byte index 49
Letters49 == [k \in 1..49 |-> "a"]

EmailPieces ==
    { Letters49, <<"é">>, <<"@", "b", ".", "d", "e">>, <<" ">>, <<"a">>,
      <<"a", "@", "b", ".", "d">> }

RECURSIVE EmailConcat(_)
EmailConcat(ps) == IF ps = <<>> THEN <<>> ELSE Head(ps) \o EmailConcat(Tail(ps))

EmailInit ==
    /\ \E ps \in UNION {[1..n -> EmailPieces] : n \in 0..MaxEmailPieces} :
         args = [input |-> EmailConcat(ps)]
    /\ ret = <<>>
    /\ cpc = "email"
    /\ IoIdle
    /\ SectionsIdle
    /\ TokenizeIdle

\* directive: the email alternative
CallEmail ==
    /\ cpc = "email"
    /\ ret' = email(args.input)
    /\ cpc' = "done"
    /\ UNCHANGED args
    /\ UNCHANGED io_vars
    /\ UNCHANGED section_vars
    /\ UNCHANGED tokenize_vars

EmailSpec == EmailInit /\ [][CallEmail]_vars

\* the byte lengths of the prefixes of the input that may be returned: from
\* 5 to min(50, len), without a space, and an address
Candidates ==
    {n \in 5..(IF str_len(args.input) < 50 THEN str_len(args.input) ELSE 50) :
        \E k \in 0..Len(args.input) :
            /\ str_len(SubSeq(args.input, 1, k)) = n
            /\ \A j \in 1..k : args.input[j] # " "
            /\ IsEmailAddress(SubSeq(args.input, 1, k))}

\* C24 as stated: the match is the longest prefix of 5 to min(50, len)
\* bytes that holds no space and is an address, and the parser fails when
\* there is none.
C24_AsStated ==
    cpc = "done" =>
        IF Candidates = {} THEN ~ret.ok
        ELSE /\ ret.ok
             /\ ret.out \o ret.rest = args.input
             /\ str_len(ret.out) = Maximum(Candidates)

----------------------------------------------------------------------------
(* The section builder on longer token lists (src/markdown/sections.rs) *)

DeepTokenUniverse ==
    { Container("HeadingH1", <<Textual("Date", Date1)>>),
      Container("HeadingH2", <<Textual("Text", <<"S", "c", "h", "o", "o", "l">>)>>),
      Container("HeadingH3", <<Textual("Date", Date2)>>),
      Container("HeadingH4", <<Textual("Tag", <<"a">>)>>),
      Textual("Tag", <<"a">>),
      Leaf("Blank") }

DeepInit ==
    /\ tokens \in UNION {[1..n -> DeepTokenUniverse] : n \in 0..MaxDeepTokens}
    /\ hierarchical_tokens = <<>>
    /\ status = NoStatus
    /\ result = NoResult
    /\ pc = "start"
    /\ TokenizeIdle
    /\ CommandIdle
    /\ IoIdle

DeepSpec == DeepInit /\ [][Next]_vars

\* the recursion levels of the calls of the pass that is about to run
LevelsOfNextPass ==
    {c[1] : c \in hierarchize_calls(hierarchical_tokens, status,
                                    is_hierarchy_root(status))}

\* C25: the loop of hierarchize_tokens_using_headings ends after one pass
\* for each of the four heading levels: every pass either leaves the loop or
\* moves to the next of the levels 0..3, the loop is left at level 3, and in
\* no pass the recursion level exceeds 9.
C25_Terminates ==
    /\ [](pc = "hierarchize" => \A l \in LevelsOfNextPass : l <= 9)
    /\ [](pc \in {"materialize", "done"} => status.hierarchy_level + 1 = 4)
    /\ [][pc = "hierarchize" =>
            \/ pc' = "materialize"
            \/ /\ pc' = "hierarchize"
               /\ status'.hierarchy_level = status.hierarchy_level + 1
               /\ status'.hierarchy_level < 4]_vars

\* the last pass on H1, H2, H3, H4 recurses down to level 4
C25_Witness ==
    /\ pc = "hierarchize"
    /\ status.hierarchy_level = 3
    /\ Len(tokens) = 4
    /\ \A i \in 1..4 : tokens[i].type = HierarchyLevels[i]
    /\ Maximum(LevelsOfNextPass) = 4

\* the number of levels of a forest
RECURSIVE Depth(_)
Depth(nodes) ==
    IF nodes = <<>> THEN 0
    ELSE 1 + Maximum({Depth(nodes[i].children) : i \in 1..Len(nodes)})

\* C30: in no pass the recursion level exceeds 5 and in no call
\* one_recursion_level_deeper returns None, so every list of children is
\* handed to the pass; the forest has at most five levels.
C30_CapNeverReached ==
    /\ pc = "hierarchize" =>
         \A c \in hierarchize_calls(hierarchical_tokens, status,
                                    is_hierarchy_root(status)) :
             c[1] <= 5 /\ ~c[2]
    /\ pc \in {"hierarchize", "materialize", "done"} => Depth(hierarchical_tokens) <= 5

\* H1, H2, H3, H4 and a tag: the last pass reaches level 5 on the empty
\* children of the tag, and the forest has five levels
C30_Witness ==
    /\ pc = "hierarchize"
    /\ status.hierarchy_level = 3
    /\ Len(tokens) = 5
    /\ \A i \in 1..4 : tokens[i].type = HierarchyLevels[i]
    /\ tokens[5].type = "Tag"
    /\ Maximum(LevelsOfNextPass) = 5

\* the tokens of a forest in pre-order
RECURSIVE PreOrderTokens(_)
PreOrderTokens(nodes) ==
    IF nodes = <<>> THEN <<>>
    ELSE <<Head(nodes).token>> \o PreOrderTokens(Head(nodes).children)
         \o PreOrderTokens(Tail(nodes))

Hierarchized == pc \in {"materialize", "done"}

\* C26: the forest holds the input tokens in pre-order, once each and in
\* their order, when the synthetic Blank root is left out; the synthetic
\* root, if there is one, is the first top-level node, and every other
\* top-level node is an H1 heading; an empty forest comes from an empty
\* input only.
C26_TokensPreserved ==
    Hierarchized =>
        IF hierarchical_tokens = <<>> THEN tokens = <<>>
        ELSE /\ \A i \in 2..Len(hierarchical_tokens) :
                  hierarchical_tokens[i].token.type = "HeadingH1"
             /\ IF tokens # <<>> /\ tokens[1].type = "HeadingH1"
                THEN PreOrderTokens(hierarchical_tokens) = tokens
                ELSE /\ hierarchical_tokens[1].token = Leaf("Blank")
                     /\ PreOrderTokens(hierarchical_tokens[1].children)
                        \o PreOrderTokens(Tail(hierarchical_tokens)) = tokens

\* a Blank token, an H3 and an H2 before the first H1: the synthetic root
\* holds them, the H1 follows it
C26_Witness ==
    /\ pc = "done"
    /\ Len(tokens) = 5
    /\ tokens[1] = Leaf("Blank")
    /\ tokens[2].type = "HeadingH3"
    /\ tokens[3].type = "HeadingH2"
    /\ tokens[4].type = "HeadingH1"
    /\ tokens[5].type = "Tag"
    /\ Len(hierarchical_tokens) = 2
    /\ hierarchical_tokens[1].token = Leaf("Blank")
    /\ Len(hierarchical_tokens[1].children) = 3
    /\ hierarchical_tokens[2].children = <<from_token(tokens[5])>>

\* among the children of every heading node no other token follows a heading
RECURSIVE HeadingsComeLast(_)
HeadingsComeLast(nodes) ==
    \A i \in 1..Len(nodes) :
        /\ IsHeadingNode(nodes[i]) =>
             \A j, k \in 1..Len(nodes[i].children) :
                 (j < k /\ IsHeadingNode(nodes[i].children[j]))
                     => IsHeadingNode(nodes[i].children[k])
        /\ HeadingsComeLast(nodes[i].children)

\* the sections of a tree in pre-order
RECURSIVE PreOrderSections(_)
PreOrderSections(sections) ==
    IF sections = <<>> THEN <<>>
    ELSE <<Head(sections)>> \o PreOrderSections(Head(sections).subsections)
         \o PreOrderSections(Tail(sections))

\* the headings of the input from the first H1 on, in order
SectionHeadings ==
    Ascending({i \in HeadingIndices : \E k \in 1..i : tokens[k].type = "HeadingH1"})

\* the input tokens strictly between heading i and the next heading
OwnTokens(i) == [k \in 1..(NextHeadingIndex(i) - i - 1) |-> tokens[i + k]]

\* C27: in the forest no other token follows a heading among the children of
\* a heading node; the content of every section is the input tokens between
\* its title and the next heading of any level, or the end of the input,
\* without HRule and Blank, and its tags are the Tag tokens of its content.
C27_ContentComplete ==
    /\ Hierarchized => HeadingsComeLast(hierarchical_tokens)
    /\ (Done /\ result.ok) =>
         /\ Len(PreOrderSections(result.sections)) = Len(SectionHeadings)
         /\ \A n \in 1..Len(SectionHeadings) :
              /\ PreOrderSections(result.sections)[n].title = tokens[SectionHeadings[n]]
              /\ PreOrderSections(result.sections)[n].content
                   = SelectSeq(OwnTokens(SectionHeadings[n]),
                               LAMBDA t : t.type \notin {"HRule", "Blank"})
              /\ PreOrderSections(result.sections)[n].tags
                   = [k \in 1..Len(SelectSeq(PreOrderSections(result.sections)[n].content,
                                             LAMBDA t : t.type = "Tag")) |->
                        SelectSeq(PreOrderSections(result.sections)[n].content,
                                  LAMBDA t : t.type = "Tag")[k].val]

\* H1, a tag, H3, a Blank, H2: the H1 holds the tag, the H3 nothing, and the
\* H2 follows the H3 among the children of the H1
C27_Witness ==
    /\ Done /\ result.ok
    /\ Len(tokens) = 5
    /\ tokens[1].type = "HeadingH1"
    /\ tokens[2].type = "Tag"
    /\ tokens[3].type = "HeadingH3"
    /\ tokens[4] = Leaf("Blank")
    /\ tokens[5].type = "HeadingH2"
    /\ Len(result.sections) = 1
    /\ result.sections[1].content = <<tokens[2]>>
    /\ result.sections[1].tags = <<tokens[2].val>>
    /\ Len(result.sections[1].subsections) = 2
    /\ result.sections[1].subsections[1].content = <<>>

\* the heading level of a section
SectionLevel(sec) ==
    CASE sec.section_type = "H1" -> 1
      [] sec.section_type = "H2" -> 2
      [] sec.section_type = "H3" -> 3
      [] sec.section_type = "H4" -> 4

RECURSIVE StrictlyDeeper(_, _)
StrictlyDeeper(sections, parent_level) ==
    \A i \in 1..Len(sections) :
        /\ SectionLevel(sections[i]) > parent_level
        /\ StrictlyDeeper(sections[i].subsections, SectionLevel(sections[i]))

\* C28: every top-level section is an H1, every subsection has a strictly
\* deeper heading level than its parent, and an H4 section has no
\* subsections.
C28_StrictlyDeeper ==
    (Done /\ result.ok) =>
        /\ \A i \in 1..Len(result.sections) : result.sections[i].section_type = "H1"
        /\ StrictlyDeeper(result.sections, 0)
        /\ \A n \in 1..Len(PreOrderSections(result.sections)) :
             PreOrderSections(result.sections)[n].section_type = "H4"
                 => PreOrderSections(result.sections)[n].subsections = <<>>

\* H1, H4, H3, H2, H4: the first H4, the H3 and the H2 are subsections of
\* the H1, the last H4 of the H2
C28_Witness ==
    /\ Done /\ result.ok
    /\ Len(tokens) = 5
    /\ [i \in 1..5 |-> tokens[i].type]
         = <<"HeadingH1", "HeadingH4", "HeadingH3", "HeadingH2", "HeadingH4">>
    /\ Len(result.sections) = 1
    /\ [i \in 1..Len(result.sections[1].subsections) |->
           result.sections[1].subsections[i].section_type] = <<"H4", "H3", "H2">>
    /\ Len(result.sections[1].subsections[3].subsections) = 1

\* C29: sections_from_tokens returns an error exactly when some H1 of the
\* input has no Date, or several, among the direct tokens of its title.
C29_ErrorIffBadH1 ==
    Done => (~result.ok <=> BadH1Indices # {})

\* an H3 before the first H1 and an H2 after it, both without a date of
\* their own that counts: no error
C29_Witness ==
    /\ Done /\ result.ok
    /\ Len(tokens) = 4
    /\ tokens[1].type = "HeadingH2"
    /\ tokens[2].type = "HeadingH4"
    /\ tokens[3].type = "HeadingH1"
    /\ tokens[4].type = "HeadingH2"
    /\ Len(result.sections) = 1
    /\ Len(result.sections[1].subsections) = 1

====
